---- MODULE Spec2Model ----
(***************************************************************************)
(* A model of the schema-driven engine of notion-orm: the filter compiler, *)
(* the response simplifier and schema drift validator of the database      *)
(* client, the config patcher of the CLI and the database type generation  *)
(* pass with its metadata cache.                                           *)
(*                                                                         *)
(* Text is modelled as a sequence of one-character strings, so that        *)
(* camelize and the joining of text runs are computed, not assumed.        *)
(***************************************************************************)
EXTENDS Integers, Sequences, FiniteSets, TLC

VARIABLES
    queryFilter,    \* the filter object handed to recursivelyBuildFilter
    wire,           \* what recursivelyBuildFilter returned for queryFilter
    loggedSchemaValidationIssues,   \* DatabaseClient: signatures already reported
    consoleErrors,  \* the warnings console.error has printed, by signature
    validations,    \* number of validateDatabaseSchema calls made
    lastRow,        \* the row of the latest validateDatabaseSchema call
    lastEmitted,    \* the warnings the latest client call printed
    remoteRows,     \* the rows the remote query call returns
    query,          \* the latest call of DatabaseClient.query and its outcome
    queries,        \* number of query calls made
    added,          \* the latest call of DatabaseClient.add and its outcome
    pageAdds,       \* number of add calls made
    configFile,     \* the config source file on disk
    fsWritable,     \* whether writing the config file succeeds
    patch,          \* the latest call of writeConfigFileWithAST and its outcome
    adds,           \* number of `notion add` runs that reached this point
    sync,           \* the latest patch of a synced config source and its outcome
    syncs,          \* number of patches of a synced config source
    notionConfig,   \* the resolved config: auth and the databases list
    remote,         \* the remote: the form of its identifiers, the titles
    disk,           \* module files, metadata.json, the barrel, the source index
    pass,           \* the latest call of createDatabaseTypes and its outcome
    passes,         \* number of createDatabaseTypes calls made
    dataSourceResponse, \* the property descriptors of a retrieved data source
    generatedModule,    \* what createTypescriptFileForDatabase made of them
    configAuth,     \* whether the config object of the config file holds `auth`
    cachedConfig,   \* loadConfig.ts: the module variable cachedConfig
    importedModule, \* the config module the runtime of the process has loaded
    resolved,       \* the outcome of the latest getNotionConfig call
    addRun,         \* the latest run of `notion add` and its outcome
    responseValue   \* the latest call of getResponseValue and its outcome

filterVars == <<queryFilter, wire>>
clientVars == <<loggedSchemaValidationIssues, consoleErrors, validations,
                lastRow, lastEmitted, remoteRows, query, queries, added,
                pageAdds>>
patchVars == <<configFile, fsWritable, patch, adds, sync, syncs>>
genVars == <<notionConfig, remote, disk, pass, passes>>
emitVars == <<dataSourceResponse, generatedModule>>
addVars == <<configAuth, cachedConfig, importedModule, resolved, addRun>>
cliVars == <<patchVars, genVars, emitVars, addVars>>
simplifyVars == <<responseValue>>
vars == <<filterVars, clientVars, simplifyVars, cliVars>>

(***************************************************************************)
(* Bounds                                                                  *)
(***************************************************************************)
MaxDepth == 2       \* nesting depth of compound filters
MaxChildren == 2    \* children of one compound filter
MaxValidations == 3 \* direct validateDatabaseSchema calls on one client
MaxQueries == 2     \* query calls on one client
MaxRows == 2         \* rows of one query response
MaxPageAdds == 1    \* add calls on one client
MaxAddRuns == 1     \* `notion add` runs
MaxElements == 2    \* elements of a `databases` array of the config source
MaxNodes == 2       \* object expressions of the config source
MaxAdds == 2        \* writeConfigFileWithAST calls
MaxSyncs == 1       \* patches of one synced config source
MaxAgents == 2      \* agents of one listing
MaxConfigured == 2  \* identifiers of the config's databases list
MaxPasses == 2      \* createDatabaseTypes calls
MaxProperties == 2  \* properties of one retrieved data source

(***************************************************************************)
(* Text helpers                                                            *)
(***************************************************************************)
LowerChars == <<"a","b","c","d","e","f","g","h","i","j","k","l","m",
                "n","o","p","q","r","s","t","u","v","w","x","y","z">>
UpperChars == <<"A","B","C","D","E","F","G","H","I","J","K","L","M",
                "N","O","P","Q","R","S","T","U","V","W","X","Y","Z">>
DigitChars == <<"0","1","2","3","4","5","6","7","8","9">>

Range(s) == {s[i] : i \in DOMAIN s}

LowerSet == Range(LowerChars)
UpperSet == Range(UpperChars)
DigitSet == Range(DigitChars)

IsLower(c) == c \in LowerSet
IsUpper(c) == c \in UpperSet
IsDigit(c) == c \in DigitSet
IsSpace(c) == c = " "
IsWordChar(c) == IsLower(c) \/ IsUpper(c) \/ IsDigit(c)

LowerOf == [c \in UpperSet |-> LowerChars[CHOOSE i \in DOMAIN UpperChars : UpperChars[i] = c]]
UpperOf == [c \in LowerSet |-> UpperChars[CHOOSE i \in DOMAIN LowerChars : LowerChars[i] = c]]

toLowerCase(c) == IF IsUpper(c) THEN LowerOf[c] ELSE c
toUpperCase(c) == IF IsLower(c) THEN UpperOf[c] ELSE c

\* str.replace(/[^a-zA-Z0-9\s]/g, "")
Cleaned(str) == SelectSeq(str, LAMBDA c : IsWordChar(c) \/ IsSpace(c))

\* The replacement of one match of /(?:^\w|[A-Z]|\b\w|\s+)/g that starts at
\* index i (1-based) of the cleaned string; an unmatched character is kept.
\* A whitespace run and the digit "0" convert to the number 0 and are dropped.
CamelChar(cl, i) ==
    LET c == cl[i]
        wordStart == IsWordChar(c) /\ (i = 1 \/ ~IsWordChar(cl[i - 1]))
        matched == IsSpace(c) \/ IsUpper(c) \/ wordStart
    IN  IF ~matched THEN <<c>>
        ELSE IF IsSpace(c) \/ c = "0" THEN <<>>
        ELSE IF i = 1 THEN <<toLowerCase(c)>>
        ELSE <<toUpperCase(c)>>

RECURSIVE CamelFrom(_, _)
CamelFrom(cl, i) ==
    IF i > Len(cl) THEN <<>> ELSE CamelChar(cl, i) \o CamelFrom(cl, i + 1)

camelize(str) == CamelFrom(Cleaned(str), 1)

(***************************************************************************)
(* The remote schema of the modelled entity and its column mapping         *)
(***************************************************************************)
\* SUPPORTED_PROPERTY_TYPES
SupportedTypes == {"url", "phone_number", "title", "email", "checkbox", "date",
                   "multi_select", "status", "number", "rich_text", "select",
                   "unique_id"}
UnsupportedTypes == {"formula", "files", "people", "relation", "rollup",
                     "created_by", "last_edited_by", "created_time",
                     "last_edited_time"}

isSupportedPropertyType(propertyType) == propertyType \in SupportedTypes

cName == <<"N","a","m","e">>
cBookRating == <<"B","o","o","k"," ","R","a","t","i","n","g">>
cPrice == <<"P","r","i","c","e">>
cEmail == <<"E","-","m","a","i","l">>
cNotes == <<"N","o","t","e","s">>
cLink == <<"L","i","n","k">>
cTags == <<"T","a","g","s">>
cDone == <<"D","o","n","e">>
cOwner == <<"O","w","n","e","r">>
cGhost == <<"G","h","o","s","t">>

\* The properties of the data source, in the order of the remote schema.
SchemaProperties == <<
    [name |-> cName,       type |-> "title",        options |-> <<>>],
    [name |-> cBookRating, type |-> "select",       options |-> <<"Good", "Bad">>],
    [name |-> cPrice,      type |-> "number",       options |-> <<>>],
    [name |-> cEmail,      type |-> "email",        options |-> <<>>],
    [name |-> cNotes,      type |-> "rich_text",    options |-> <<>>],
    [name |-> cLink,       type |-> "url",          options |-> <<>>],
    [name |-> cTags,       type |-> "multi_select", options |-> <<"x", "y">>],
    [name |-> cDone,       type |-> "checkbox",     options |-> <<>>],
    [name |-> cOwner,      type |-> "people",       options |-> <<>>] >>

\* An assignment that leaves the value of an existing key as it is.
SetKeyKeepFirst(obj, entry) ==
    IF \E i \in DOMAIN obj : obj[i].key = entry.key
    THEN obj
    ELSE Append(obj, entry)

\* obj[key] = value on an object kept as the sequence of its entries in key
\* order: an existing key keeps its place, a new key goes last.
SetKey(obj, entry) ==
    IF \E i \in DOMAIN obj : obj[i].key = entry.key
    THEN [i \in DOMAIN obj |-> IF obj[i].key = entry.key THEN entry ELSE obj[i]]
    ELSE Append(obj, entry)

\* A loop that fills the mapping before it looks at the kind.
RECURSIVE BuildColumnMapUnfiltered(_, _)
BuildColumnMapUnfiltered(properties, n) ==
    IF n = 0 THEN <<>>
    ELSE LET p == properties[n]
         IN  SetKey(BuildColumnMapUnfiltered(properties, n - 1),
                    [key |-> camelize(p.name), columnName |-> p.name, type |-> p.type])

\* The loop of createTypescriptFileForDatabase that fills
\* camelPropertyNameToNameAndTypeMap, over the first n properties.
RECURSIVE BuildColumnMap(_, _)
BuildColumnMap(properties, n) ==
    IF n = 0 THEN <<>>
    ELSE LET prev == BuildColumnMap(properties, n - 1)
             p == properties[n]
         IN  IF ~isSupportedPropertyType(p.type) THEN prev
             ELSE SetKey(prev, [key |-> camelize(p.name),
                                columnName |-> p.name, type |-> p.type])

camelPropertyNameToNameAndTypeMap ==
    BuildColumnMap(SchemaProperties, Len(SchemaProperties))

HasKey(obj, k) == \E i \in DOMAIN obj : obj[i].key = k
Lookup(obj, k) == obj[CHOOSE i \in DOMAIN obj : obj[i].key = k]
Keys(obj) == {obj[i].key : i \in DOMAIN obj}

(***************************************************************************)
(* Filter compiler                                                         *)
(***************************************************************************)
kAnd == <<"a","n","d">>
kOr == <<"o","r">>

NoCond == [op |-> "", operand |-> ""]
Conds == {[op |-> "equals", operand |-> "Good"],
          [op |-> "less_than", operand |-> "10"]}

\* A filter object is the sequence of its entries in key order.
Leaf(name, c) == <<[key |-> name, isList |-> FALSE, sub |-> <<>>, cond |-> c]>>
Compound(op, children) ==
    <<[key |-> op, isList |-> TRUE, sub |-> children, cond |-> NoCond]>>

WireUndefined == [kind |-> "undefined", children |-> <<>>, property |-> <<>>,
                  type |-> "", cond |-> NoCond]
WireTypeError == [kind |-> "TypeError", children |-> <<>>, property |-> <<>>,
                  type |-> "", cond |-> NoCond]
NotCompiled == [kind |-> "none", children |-> <<>>, property |-> <<>>,
                type |-> "", cond |-> NoCond]

\* The message of the TypeError that reading `.type` of an undefined lookup
\* throws: it names the property that was read.
TypeErrorMessage ==
    <<"C","a","n","n","o","t"," ","r","e","a","d"," ","p","r","o","p","e",
      "r","t","i","e","s"," ","o","f"," ","u","n","d","e","f","i","n","e",
      "d"," ","(","r","e","a","d","i","n","g"," ","'","t","y","p","e","'",
      ")">>

\* error.message of what a compilation threw, empty when it returned.
ErrorMessage(w) == IF w.kind = "TypeError" THEN TypeErrorMessage ELSE <<>>

\* A compound whose array holds the compiled children last child first.
CompoundWireReversed(op, compiled) ==
    IF \E i \in DOMAIN compiled : compiled[i].kind = "TypeError"
    THEN WireTypeError
    ELSE [kind |-> op,
          children |-> [i \in DOMAIN compiled |-> compiled[Len(compiled) + 1 - i]],
          property |-> <<>>, type |-> "", cond |-> NoCond]

\* compoundFilters.map(...) evaluates the children in order and the first
\* child that throws ends the call with that error.
CompoundWire(op, compiled) ==
    IF \E i \in DOMAIN compiled : compiled[i].kind = "TypeError"
    THEN WireTypeError
    ELSE [kind |-> op, children |-> compiled, property |-> <<>>,
          type |-> "", cond |-> NoCond]

\* A leaf that takes the remote name of the first entry of the mapping.
SingleWireFirstColumn(map, prop, c) ==
    [kind |-> "single", children |-> <<>>,
     property |-> map[1].columnName,
     type |-> Lookup(map, prop).type, cond |-> c]

SingleWire(map, prop, c) ==
    [kind |-> "single", children |-> <<>>,
     property |-> Lookup(map, prop).columnName,
     type |-> Lookup(map, prop).type, cond |-> c]

\* A compiler that compiles the last key of the object and not the first.
RECURSIVE recursivelyBuildFilterLastKey(_, _)
recursivelyBuildFilterLastKey(qf, map) ==
    IF Len(qf) = 0 THEN WireUndefined
    ELSE LET e == qf[Len(qf)] IN
         IF e.key = kAnd \/ e.key = kOr
         THEN IF ~e.isList THEN WireTypeError
              ELSE CompoundWire(IF e.key = kAnd THEN "and" ELSE "or",
                       [i \in DOMAIN e.sub |->
                            recursivelyBuildFilterLastKey(e.sub[i], map)])
         ELSE IF ~HasKey(map, e.key) THEN WireTypeError
              ELSE SingleWire(map, e.key, e.cond)

\* recursivelyBuildFilter: the for..in loop returns in its first iteration,
\* so only the first key of the object is looked at.
RECURSIVE recursivelyBuildFilter(_, _)
recursivelyBuildFilter(qf, map) ==
    IF Len(qf) = 0 THEN WireUndefined
    ELSE LET e == qf[1] IN
         IF e.key = kAnd \/ e.key = kOr
         THEN IF ~e.isList THEN WireTypeError
              ELSE CompoundWire(IF e.key = kAnd THEN "and" ELSE "or",
                       [i \in DOMAIN e.sub |-> recursivelyBuildFilter(e.sub[i], map)])
         ELSE IF ~HasKey(map, e.key) THEN WireTypeError
              ELSE SingleWire(map, e.key, e.cond)

sBookRating == camelize(cBookRating)
sPrice == camelize(cPrice)
sGhost == camelize(cGhost)

LeafFilters == {Leaf(n, c) : n \in {sBookRating, sPrice, sGhost}, c \in Conds}

SiblingFilters ==
    { Leaf(sBookRating, [op |-> "equals", operand |-> "Good"]),
      Compound(kOr, << Leaf(sPrice, [op |-> "equals", operand |-> "Good"]),
                       Leaf(sBookRating, [op |-> "less_than", operand |-> "10"]) >>) }

BaseFilters ==
    LeafFilters
    \cup { <<>>, Compound(kAnd, <<>>), Compound(kOr, <<>>) }
    \cup { Leaf(sBookRating, [op |-> "equals", operand |-> "Good"])
             \o Leaf(sPrice, [op |-> "less_than", operand |-> "10"]),
           Leaf(sPrice, [op |-> "less_than", operand |-> "10"])
             \o Compound(kAnd, <<Leaf(sBookRating, [op |-> "equals", operand |-> "Good"])>>),
           Compound(kOr, <<Leaf(sBookRating, [op |-> "equals", operand |-> "Good"])>>)
             \o Leaf(sPrice, [op |-> "less_than", operand |-> "10"]),
           Leaf(sBookRating, [op |-> "equals", operand |-> "Good"])
             \o Leaf(sGhost, [op |-> "equals", operand |-> "Good"]) }

RECURSIVE Depth(_)
RECURSIVE MaxOver(_, _)
MaxOver(seq, n) ==
    IF n = 0 THEN 0
    ELSE LET a == Depth(seq[n])
             b == MaxOver(seq, n - 1)
         IN  IF a > b THEN a ELSE b
Depth(qf) ==
    IF Len(qf) = 0 THEN 0
    ELSE IF qf[1].isList THEN 1 + MaxOver(qf[1].sub, Len(qf[1].sub)) ELSE 0

\* The sequences of at most MaxChildren filters that hold f once, the other
\* places taken from SiblingFilters.
RECURSIVE SiblingSeqs(_)
SiblingSeqs(n) ==
    IF n = 0 THEN {<<>>}
    ELSE LET shorter == SiblingSeqs(n - 1)
         IN  shorter \cup {Append(s, x) : s \in {t \in shorter : Len(t) = n - 1},
                                          x \in SiblingFilters}
ChildLists(f) ==
    UNION { {SubSeq(s, 1, i) \o <<f>> \o SubSeq(s, i + 1, Len(s)) : i \in 0..Len(s)} :
              s \in SiblingSeqs(MaxChildren - 1) }


(***************************************************************************)
(* Values of the remote rows and of the simplified rows                    *)
(***************************************************************************)
\* One JavaScript value: null, undefined, a string (text), an option label
\* (s), a number, a boolean, an array of text runs (runs), an option object
\* {name: s}, an array of option objects or of labels (arr), or another object.
Val(tag) == [tag |-> tag, text |-> <<>>, runs |-> <<>>, s |-> "", arr |-> <<>>,
             n |-> 0, b |-> FALSE]
VNull == Val("null")
VUndefined == Val("undefined")
VStr(t) == [Val("str") EXCEPT !.text = t]
VLabel(l) == [Val("label") EXCEPT !.s = l]
VLabels(a) == [Val("labels") EXCEPT !.arr = a]
VNum(k) == [Val("num") EXCEPT !.n = k]
VBool(x) == [Val("bool") EXCEPT !.b = x]
VRuns(r) == [Val("runs") EXCEPT !.runs = r]
VOpt(l) == [Val("opt") EXCEPT !.s = l]
VOpts(a) == [Val("opts") EXCEPT !.arr = a]
VObject == Val("object")

\* JavaScript truthiness
Truthy(v) ==
    CASE v.tag \in {"null", "undefined"} -> FALSE
      [] v.tag = "str" -> v.text # <<>>
      [] v.tag = "label" -> v.s # ""
      [] v.tag = "num" -> v.n # 0
      [] v.tag = "bool" -> v.b
      [] OTHER -> TRUE

RECURSIVE Join(_)
Join(runs) == IF runs = <<>> THEN <<>> ELSE Head(runs) \o Join(Tail(runs))

\* A remote property object {type: t, [t]: v}; every other field is undefined.
Prop(t, v) == [type |-> t, v |-> v]
Field(x, k) == IF x.type = k THEN x.v ELSE VUndefined

(***************************************************************************)
(* Response simplifier                                                     *)
(***************************************************************************)
\* A simplifier that takes a number for present only when it is truthy.
getResponseValueTruthyNumber(prop, x) ==
    CASE prop \in {"select", "status"} ->
            IF Truthy(Field(x, prop)) THEN VLabel(Field(x, prop).s) ELSE VNull
      [] prop = "title" ->
            IF Truthy(Field(x, prop)) THEN VStr(Join(Field(x, prop).runs)) ELSE VNull
      [] prop = "url" -> Field(x, prop)
      [] prop = "multi_select" ->
            IF Truthy(Field(x, prop)) THEN VLabels(Field(x, prop).arr) ELSE VNull
      [] prop = "checkbox" -> VBool(Truthy(Field(x, prop)))
      [] prop = "rich_text" ->
            IF Truthy(Field(x, prop)) /\ Field(x, prop).tag = "runs"
            THEN VStr(Join(Field(x, prop).runs)) ELSE VNull
      [] prop = "number" -> IF Truthy(Field(x, prop)) THEN Field(x, prop) ELSE VNull
      [] OTHER -> VNull

getResponseValue(prop, x) ==
    CASE prop \in {"select", "status"} ->
            IF Truthy(Field(x, prop)) THEN VLabel(Field(x, prop).s) ELSE VNull
      [] prop = "title" ->
            IF Truthy(Field(x, prop)) THEN VStr(Join(Field(x, prop).runs)) ELSE VNull
      [] prop = "url" -> Field(x, prop)
      [] prop = "multi_select" ->
            IF Truthy(Field(x, prop)) THEN VLabels(Field(x, prop).arr) ELSE VNull
      [] prop = "checkbox" -> VBool(Truthy(Field(x, prop)))
      [] prop = "rich_text" ->
            IF Truthy(Field(x, prop)) /\ Field(x, prop).tag = "runs"
            THEN VStr(Join(Field(x, prop).runs)) ELSE VNull
      [] prop = "number" -> Field(x, prop)
      [] OTHER -> VNull

\* A loop that gives a remote property without a mapping entry the value null.
RECURSIVE SimplifyPropertiesUnmapped(_, _, _)
SimplifyPropertiesUnmapped(properties, map, n) ==
    IF n = 0 THEN <<>>
    ELSE LET prev == SimplifyPropertiesUnmapped(properties, map, n - 1)
             camelizeColumnName == camelize(properties[n].columnName)
         IN  IF HasKey(map, camelizeColumnName)
             THEN SetKey(prev, [key |-> camelizeColumnName,
                                value |-> getResponseValue(
                                    Lookup(map, camelizeColumnName).type,
                                    properties[n].x)])
             ELSE SetKey(prev, [key |-> camelizeColumnName, value |-> VNull])

\* The loop of buildQueryResponse over Object.entries(result.properties),
\* first n entries.
RECURSIVE SimplifyProperties(_, _, _)
SimplifyProperties(properties, map, n) ==
    IF n = 0 THEN <<>>
    ELSE LET prev == SimplifyProperties(properties, map, n - 1)
             camelizeColumnName == camelize(properties[n].columnName)
         IN  IF HasKey(map, camelizeColumnName)
             THEN SetKey(prev, [key |-> camelizeColumnName,
                                value |-> getResponseValue(
                                    Lookup(map, camelizeColumnName).type,
                                    properties[n].x)])
             ELSE prev

\* What the map callback of buildQueryResponse does with one raw row.
RowOutcome(result) ==
    IF result.object = "page" /\ ~result.hasProperties THEN "skip"
    ELSE IF ~result.hasProperties THEN "TypeError"   \* Object.entries(undefined)
    ELSE "row"

SimplifyRow(result, map) ==
    SimplifyProperties(result.properties, map, Len(result.properties))

(***************************************************************************)
(* Generated validator                                                     *)
(***************************************************************************)
applyOptionalNullable(base, optional, nullable) ==
    [base |-> base, optional |-> optional, nullable |-> nullable]

\* Generators that mark every kind required.
IsRequiredAlways(type) == TRUE

\* propertyASTGenerators[type].zodMeta.isRequired
IsRequired(type) == type = "title"

createZodPropertyExpression(column) ==
    LET optional == ~column.isRequired IN
    CASE column.type = "title" -> applyOptionalNullable("string", FALSE, FALSE)
      [] column.type \in {"rich_text", "email", "phone_number", "url"} ->
            applyOptionalNullable("string", optional, TRUE)
      [] column.type = "number" -> applyOptionalNullable("number", optional, TRUE)
      [] column.type = "checkbox" -> applyOptionalNullable("boolean", optional, FALSE)
      [] column.type = "date" -> applyOptionalNullable("date", optional, TRUE)
      [] column.type \in {"select", "status"} ->
            applyOptionalNullable(IF column.options # <<>> THEN "enum" ELSE "string",
                                  optional, TRUE)
      [] column.type = "multi_select" ->
            applyOptionalNullable(IF column.options # <<>> THEN "array_enum"
                                  ELSE "array_string", optional, TRUE)
      [] OTHER -> applyOptionalNullable("unknown", TRUE, TRUE)

\* createZodSchema over the zodColumns that createTypescriptFileForDatabase
\* collects: the keys of the z.object literal, in order.
RECURSIVE BuildZodSchema(_, _)
BuildZodSchema(properties, n) ==
    IF n = 0 THEN <<>>
    ELSE LET prev == BuildZodSchema(properties, n - 1)
             p == properties[n]
         IN  IF ~isSupportedPropertyType(p.type) THEN prev
             ELSE SetKey(prev, [key |-> camelize(p.name),
                                options |-> p.options,
                                zod |-> createZodPropertyExpression(
                                    [type |-> p.type, isRequired |-> IsRequired(p.type),
                                     options |-> p.options])])

schema == BuildZodSchema(SchemaProperties, Len(SchemaProperties))

NoIssue == <<>>
Issue(code, key, expected, received) ==
    <<[code |-> code, path |-> key, expected |-> expected, received |-> received]>>

BaseAccepts(base, options, v) ==
    CASE base = "string" -> v.tag \in {"str", "label"}
      [] base = "number" -> v.tag = "num"
      [] base = "boolean" -> v.tag = "bool"
      [] base = "enum" -> v.tag = "label" /\ v.s \in Range(options)
      [] base = "array_enum" -> v.tag = "labels" /\ Range(v.arr) \subseteq Range(options)
      [] base = "array_string" -> v.tag = "labels"
      [] base = "date" -> v.tag = "object"
      [] OTHER -> TRUE

\* The issues zod reports for the value v of one key of the object schema.
ZodCheck(col, v) ==
    IF col.zod.base = "unknown" THEN NoIssue
    ELSE IF v.tag = "undefined"
    THEN IF col.zod.optional THEN NoIssue
         ELSE Issue("invalid_type", col.key, col.zod.base, "undefined")
    ELSE IF v.tag = "null"
    THEN IF col.zod.nullable THEN NoIssue
         ELSE Issue("invalid_type", col.key, col.zod.base, "null")
    ELSE IF BaseAccepts(col.zod.base, col.options, v) THEN NoIssue
    ELSE IF col.zod.base = "enum" /\ v.tag \in {"str", "label"}
    THEN Issue("invalid_enum_value", col.key, col.zod.base, v.s)
    ELSE Issue("invalid_type", col.key, col.zod.base, v.tag)

RowValue(row, k) == IF HasKey(row, k) THEN Lookup(row, k).value ELSE VUndefined

\* schema.safeParse(result).error.issues, empty on success: z.object visits
\* the keys of its shape in order and ignores the keys it does not know.
RECURSIVE safeParse(_, _, _)
safeParse(sch, row, n) ==
    IF n = 0 THEN <<>>
    ELSE safeParse(sch, row, n - 1) \o ZodCheck(sch[n], RowValue(row, sch[n].key))

(***************************************************************************)
(* Schema drift validator                                                  *)
(***************************************************************************)
\* JSON.stringify of the content of an issue: the three contents have
\* different shapes, so signatures of different kinds never coincide.
Signature(type, properties, property, issues) ==
    [type |-> type, properties |-> properties, property |-> property,
     issues |-> issues]
MissingSignature(missingProperties) ==
    Signature("missing_properties", missingProperties, <<>>, <<>>)
UnexpectedSignature(remoteColName) ==
    Signature("unexpected_property", <<>>, remoteColName, <<>>)
ZodSignature(issues) == Signature("zod", <<>>, <<>>, issues)

\* A report that takes any logged warning of the same kind for this one.
ReportByKind(st, signature) ==
    IF \E l \in st.logged : l.type = signature.type THEN st
    ELSE [logged |-> st.logged \cup {signature},
          emitted |-> Append(st.emitted, signature)]

\* if (!logged.has(signature)) { logged.add(signature); console.error(...) }
Report(st, signature) ==
    IF signature \in st.logged THEN st
    ELSE [logged |-> st.logged \cup {signature},
          emitted |-> Append(st.emitted, signature)]

MissingProperties(map, row) ==
    LET missing == SelectSeq(map, LAMBDA e : ~HasKey(row, e.key))
    IN  [i \in DOMAIN missing |-> missing[i].key]

CheckMissing(st, map, row) ==
    IF Len(MissingProperties(map, row)) > 0
    THEN Report(st, MissingSignature(MissingProperties(map, row)))
    ELSE st

RECURSIVE CheckUnexpected(_, _, _, _)
CheckUnexpected(st, map, row, n) ==
    IF n = 0 THEN st
    ELSE LET prev == CheckUnexpected(st, map, row, n - 1)
         IN  IF ~HasKey(map, row[n].key)
             THEN Report(prev, UnexpectedSignature(row[n].key))
             ELSE prev

CheckZod(st, sch, row) ==
    IF safeParse(sch, row, Len(sch)) = <<>> THEN st
    ELSE Report(st, ZodSignature(safeParse(sch, row, Len(sch))))

\* DatabaseClient.validateDatabaseSchema: the set of logged signatures after
\* the call and the warnings the call printed, in order.
validateDatabaseSchema(logged, map, sch, row) ==
    CheckZod(
        CheckUnexpected(
            CheckMissing([logged |-> logged, emitted |-> <<>>], map, row),
            map, row, Len(row)),
        sch, row)


(***************************************************************************)
(* DatabaseClient.query                                                    *)
(***************************************************************************)
\* buildQueryResponse: rawResults.map(...) runs the callback on the rows in
\* order; the first row that throws ends the call. The validator is called
\* in the callback of index 0, after that row was simplified.
FirstThrow(res) ==
    IF \E i \in DOMAIN res : RowOutcome(res[i]) = "TypeError"
    THEN CHOOSE i \in DOMAIN res :
            /\ RowOutcome(res[i]) = "TypeError"
            /\ \A j \in 1..(i - 1) : RowOutcome(res[j]) # "TypeError"
    ELSE 0

\* A response builder that rejects when the validator reports an issue.
buildQueryResponseStrict(res, map, sch, logged) ==
    LET validates == Len(res) > 0 /\ RowOutcome(res[1]) = "row"
        v == IF validates
             THEN validateDatabaseSchema(logged, map, sch, SimplifyRow(res[1], map))
             ELSE [logged |-> logged, emitted |-> <<>>]
        kept == SelectSeq(res, LAMBDA r : RowOutcome(r) = "row")
        threw == FirstThrow(res) # 0 \/ v.emitted # <<>>
    IN  [threw |-> threw,
         results |-> IF threw THEN <<>>
                     ELSE [i \in DOMAIN kept |-> SimplifyRow(kept[i], map)],
         validated |-> IF validates THEN <<SimplifyRow(res[1], map)>> ELSE <<>>,
         logged |-> v.logged,
         emitted |-> v.emitted]

buildQueryResponse(res, map, sch, logged) ==
    LET validates == Len(res) > 0 /\ RowOutcome(res[1]) = "row"
        v == IF validates
             THEN validateDatabaseSchema(logged, map, sch, SimplifyRow(res[1], map))
             ELSE [logged |-> logged, emitted |-> <<>>]
        kept == SelectSeq(res, LAMBDA r : RowOutcome(r) = "row")
    IN  [threw |-> FirstThrow(res) # 0,
         results |-> IF FirstThrow(res) # 0 THEN <<>>
                     ELSE [i \in DOMAIN kept |-> SimplifyRow(kept[i], map)],
         validated |-> IF validates THEN <<SimplifyRow(res[1], map)>> ELSE <<>>,
         logged |-> v.logged,
         emitted |-> v.emitted]

NoFilter == <<[key |-> <<>>, isList |-> FALSE, sub |-> <<>>, cond |-> NoCond]>>

\* The body of the remote call: `sorts` and `filter` are set only when the
\* compiled filter is truthy.
QueryCall(filter, sort) ==
    LET filters == IF filter = NoFilter THEN WireUndefined
                   ELSE recursivelyBuildFilter(filter, camelPropertyNameToNameAndTypeMap)
    IN  IF filters.kind = "TypeError"
        THEN [sent |-> FALSE, sorts |-> "absent", filter |-> filters]
        ELSE IF filters.kind = "undefined"
        THEN [sent |-> TRUE, sorts |-> "absent", filter |-> filters]
        ELSE [sent |-> TRUE, sorts |-> IF sort = "absent" THEN "empty" ELSE sort,
              filter |-> filters]

NoQuery == [called |-> FALSE, filter |-> NoFilter, sort |-> "absent",
            response |-> <<>>,
            call |-> [sent |-> FALSE, sorts |-> "absent", filter |-> NotCompiled],
            threw |-> FALSE, results |-> <<>>, validated |-> <<>>]

DoQuery(filter, sort, res) ==
    LET call == QueryCall(filter, sort)
        out == buildQueryResponse(res, camelPropertyNameToNameAndTypeMap, schema,
                                  loggedSchemaValidationIssues)
    IN  IF ~call.sent
        THEN /\ query' = [called |-> TRUE, filter |-> filter, sort |-> sort,
                          response |-> <<>>, call |-> call, threw |-> TRUE,
                          results |-> <<>>, validated |-> <<>>]
             /\ lastEmitted' = <<>>
             /\ UNCHANGED <<loggedSchemaValidationIssues, consoleErrors>>
        ELSE /\ query' = [called |-> TRUE, filter |-> filter, sort |-> sort,
                          response |-> res, call |-> call, threw |-> out.threw,
                          results |-> out.results, validated |-> out.validated]
             /\ loggedSchemaValidationIssues' = out.logged
             /\ lastEmitted' = out.emitted
             /\ consoleErrors' = consoleErrors \o out.emitted

(***************************************************************************)
(* DatabaseClient.add                                                      *)
(***************************************************************************)
\* Object.entries(pageObject).forEach(...) over the first n entries: the
\* lookup of a name the mapping does not have throws; `built` holds the
\* entries for which buildPropertyValueForAddPage gave a column object, and
\* those are set in callBody.properties under the remote name.
RECURSIVE AddEachProperty(_, _, _, _)
AddEachProperty(pageObject, map, built, n) ==
    IF n = 0 THEN [threw |-> FALSE, properties |-> <<>>]
    ELSE LET prev == AddEachProperty(pageObject, map, built, n - 1)
             propertyName == pageObject[n].key
         IN  IF prev.threw \/ ~HasKey(map, propertyName)
             THEN [threw |-> TRUE, properties |-> <<>>]
             ELSE IF n \in built
             THEN [prev EXCEPT !.properties =
                     SetKey(@, [key |-> Lookup(map, propertyName).columnName,
                                type |-> Lookup(map, propertyName).type,
                                value |-> pageObject[n].value])]
             ELSE prev

\* DatabaseClient.add: the call body is built from the page object and
\* handed to client.pages.create; `validated` lists the objects the
\* validator of the client was run on before that, and the method runs it
\* on none.
add(pageObject, map, built) ==
    LET body == AddEachProperty(pageObject, map, built, Len(pageObject))
    IN  [called |-> TRUE, properties |-> pageObject, validated |-> <<>>,
         threw |-> body.threw, sent |-> ~body.threw, callBody |-> body.properties]

NoAdd == [called |-> FALSE, properties |-> <<>>, validated |-> <<>>,
          threw |-> FALSE, sent |-> FALSE, callBody |-> <<>>]

(***************************************************************************)
(* Inputs of the client                                                    *)
(***************************************************************************)
sName == camelize(cName)
sEmail == camelize(cEmail)
sNotes == camelize(cNotes)
sLink == camelize(cLink)
sTags == camelize(cTags)
sDone == camelize(cDone)
sOwner == camelize(cOwner)

Cell(k, v) == <<[key |-> k, value |-> v]>>

\* Simplified rows handed to validateDatabaseSchema.
DriftRows ==
    { name \o rating \o Cell(sPrice, VNum(5)) \o Cell(sEmail, VNull)
        \o Cell(sNotes, VStr(<<"o","k">>)) \o Cell(sLink, VNull)
        \o Cell(sTags, VLabels(<<"x">>)) \o Cell(sDone, VBool(TRUE)) \o extra :
        name \in {<<>>, Cell(sName, VStr(<<"A","n","n">>))},
        rating \in {<<>>, Cell(sBookRating, VLabel("Good")),
                    Cell(sBookRating, VLabel("Weird"))},
        extra \in {<<>>, Cell(sGhost, VNull),
                   Cell(sGhost, VNull) \o Cell(sOwner, VNull)} }

Column(name, x) == <<[columnName |-> name, x |-> x]>>
RawRow(object, hasProperties, properties) ==
    [object |-> object, hasProperties |-> hasProperties, properties |-> properties]

\* Raw rows of a query response: a full page, a partial page and a partial
\* data source (neither has `properties`), a page with empty values and
\* unmapped columns, and a page whose columns changed their kind.
RawRows ==
    { RawRow("page", TRUE,
          Column(cName, Prop("title", VRuns(<< <<"A","n">>, <<"n">> >>)))
          \o Column(cBookRating, Prop("select", VOpt("Good")))
          \o Column(cPrice, Prop("number", VNum(5)))
          \o Column(cEmail, Prop("email", VStr(<<"a","@","b">>)))
          \o Column(cNotes, Prop("rich_text", VRuns(<< <<"o">>, <<"k">> >>)))
          \o Column(cLink, Prop("url", VStr(<<"u","r","l">>)))
          \o Column(cTags, Prop("multi_select", VOpts(<<"x", "y">>)))
          \o Column(cDone, Prop("checkbox", VBool(TRUE)))),
      RawRow("page", FALSE, <<>>),
      RawRow("data_source", FALSE, <<>>),
      RawRow("page", TRUE,
          Column(cName, Prop("title", VRuns(<<>>)))
          \o Column(cBookRating, Prop("select", VNull))
          \o Column(cPrice, Prop("number", VNull))
          \o Column(cEmail, Prop("email", VNull))
          \o Column(cLink, Prop("url", VNull))
          \o Column(cOwner, Prop("people", VOpts(<<>>)))
          \o Column(cGhost, Prop("rich_text", VRuns(<< <<"g">> >>)))),
      RawRow("page", TRUE,
          Column(cName, Prop("title", VRuns(<< <<"B">> >>)))
          \o Column(cBookRating, Prop("select", VOpt("Weird")))
          \o Column(cPrice, Prop("rich_text", VRuns(<< <<"5">> >>)))
          \o Column(cNotes, Prop("rich_text", VRuns(<<>>)))
          \o Column(cTags, Prop("multi_select", VOpts(<<>>)))
          \o Column(cDone, Prop("checkbox", VBool(FALSE)))) }

RECURSIVE Responses(_)
Responses(n) ==
    IF n = 0 THEN {<<>>}
    ELSE LET shorter == Responses(n - 1)
         IN  shorter \cup {Append(r, x) : r \in {t \in shorter : Len(t) = n - 1},
                                          x \in RawRows}

\* Page objects handed to add: one the validator accepts, one with an
\* option the enum does not have, one without the title, one with a value of
\* the wrong type, and one with a name the mapping does not have.
PageObjects ==
    { Cell(sName, VStr(<<"A","n","n">>)) \o Cell(sBookRating, VLabel("Good")),
      Cell(sName, VStr(<<"A","n","n">>)) \o Cell(sBookRating, VLabel("Weird")),
      Cell(sBookRating, VLabel("Good")),
      Cell(sName, VStr(<<"A","n","n">>)) \o Cell(sPrice, VStr(<<"5">>)),
      Cell(sName, VStr(<<"A","n","n">>)) \o Cell(sGhost, VNull) }

\* The column types a mapping entry can name, for the simplifier.
SimplifyKinds == {"select", "status", "multi_select", "checkbox", "number",
                  "title", "url", "rich_text", "email"}

\* The values the remote gives a property of each kind.
RemoteValuesOf(t) ==
    CASE t \in {"select", "status"} -> {VNull, VOpt("Good"), VOpt("Weird")}
      [] t = "multi_select" -> {VOpts(<<>>), VOpts(<<"x", "y">>), VOpts(<<"y", "x">>)}
      [] t = "checkbox" -> {VBool(TRUE), VBool(FALSE)}
      [] t = "number" -> {VNull, VNum(0), VNum(5)}
      [] t \in {"title", "rich_text"} ->
            {VRuns(<<>>), VRuns(<< <<"A", "n">>, <<"n">> >>)}
      [] OTHER -> {VNull, VStr(<<"u", "r", "l">>)}

RemoteProperties == UNION { {Prop(t, v) : v \in RemoteValuesOf(t)} : t \in SimplifyKinds }

\* The filter and the sort of a query call.
QueryInputs ==
    { [filter |-> NoFilter, sort |-> "absent"],
      [filter |-> NoFilter, sort |-> "descending"],
      [filter |-> Leaf(sBookRating, [op |-> "equals", operand |-> "Good"]),
       sort |-> "descending"],
      [filter |-> Leaf(sGhost, [op |-> "equals", operand |-> "Good"]),
       sort |-> "absent"] }

(***************************************************************************)
(* Config patcher                                                          *)
(*                                                                         *)
(* The config source is the list of the object expressions it holds, each  *)
(* with the node it hangs from, the expression that wraps it and its       *)
(* `databases` property.  An element of the array is a string literal or   *)
(* another expression that evaluates to an identifier.                     *)
(***************************************************************************)
DatabaseIds == {"a", "b"}
CommentNames == {"", "Books"}

StringLiteral(v, c) == [lit |-> TRUE, value |-> v, comment |-> c]
OtherElement(v) == [lit |-> FALSE, value |-> v, comment |-> ""]

VisitedShapes == {"VariableDeclarator", "ExportsAssignment", "ExportDefaultDeclaration"}
\* An object expression with a `databases` and an `agents` property; the
\* elements of a property that is not an array literal are what it
\* evaluates to.
ConfigNode(shape, expr, databases, elements, agentsValue, agentElements) ==
    [shape |-> shape, expr |-> expr, databases |-> databases, elements |-> elements,
     agents |-> agentsValue, agentElements |-> agentElements]

\* An object expression without an `agents` property.
ObjectNode(shape, expr, databases, elements) ==
    ConfigNode(shape, expr, databases, elements, "absent", <<>>)

\* prop.value.elements.filter(isStringLiteral).map(el => el.value)
existingIds(elements) ==
    {elements[i].value : i \in {j \in DOMAIN elements : elements[j].lit}}

\* A patcher that pushes the literal without looking at the existing ones.
modifyDatabaseIdsUnchecked(objExpression, newDatabaseId, name) ==
    IF objExpression.databases = "ArrayExpression"
    THEN [objExpression EXCEPT
            !.elements = Append(@, StringLiteral(newDatabaseId, name))]
    ELSE objExpression

\* A patcher that puts the new literal in front of the array.
modifyDatabaseIdsInFront(objExpression, newDatabaseId, name) ==
    IF /\ objExpression.databases = "ArrayExpression"
       /\ newDatabaseId \notin existingIds(objExpression.elements)
    THEN [objExpression EXCEPT
            !.elements = <<StringLiteral(newDatabaseId, name)>> \o @]
    ELSE objExpression

\* The first `databases` property whose value is an array literal gets the
\* new string literal pushed, with the trailing comment, when no string
\* literal of the array has that value.
modifyDatabaseIdsInObject(objExpression, newDatabaseId, name) ==
    IF /\ objExpression.databases = "ArrayExpression"
       /\ newDatabaseId \notin existingIds(objExpression.elements)
    THEN [objExpression EXCEPT
            !.elements = Append(@, StringLiteral(newDatabaseId, name))]
    ELSE objExpression

\* A declarator's init, the right side of `*.exports =` and the declaration
\* of `export default` are patched when, `satisfies` unwrapped, they are
\* object expressions.
visitNode(node, newDatabaseId, name) ==
    IF /\ node.shape \in VisitedShapes
       /\ node.expr \in {"ObjectExpression", "TSSatisfiesExpression"}
    THEN modifyDatabaseIdsInObject(node, newDatabaseId, name)
    ELSE node

traverse(nodes, newDatabaseId, name) ==
    [i \in DOMAIN nodes |-> visitNode(nodes[i], newDatabaseId, name)]

\* What importing the config file gives: the value of the object the file
\* exports, here the last one of the source.
loadConfig(file) ==
    LET exported == file.nodes[Len(file.nodes)]
    IN  [databases |->
            IF exported.databases = "absent" THEN <<>>
            ELSE [i \in DOMAIN exported.elements |-> exported.elements[i].value],
         hasAgents |-> exported.agents # "absent",
         agents |-> [i \in DOMAIN exported.agentElements |->
                        exported.agentElements[i].value]]

\* `export default <JSON>;` or `module.exports = <JSON>;`
writeConfigFile(config, isTS) ==
    [isTS |-> isTS, parses |-> TRUE, loadable |-> TRUE, rendering |-> "json",
     nodes |-> << ConfigNode(
                    IF isTS THEN "ExportDefaultDeclaration" ELSE "ExportsAssignment",
                    "ObjectExpression", "ArrayExpression",
                    [i \in DOMAIN config.databases |->
                        StringLiteral(config.databases[i], "")],
                    IF config.hasAgents THEN "ArrayExpression" ELSE "absent",
                    [i \in DOMAIN config.agents |->
                        StringLiteral(config.agents[i], "")]) >>]

PatchResult(file, wrote, returned, path) ==
    [file |-> file, wrote |-> wrote, returned |-> returned, path |-> path]

\* The catch block of writeConfigFileWithAST.
FallbackRewrite(file, writable, newDatabaseId) ==
    IF ~file.loadable THEN PatchResult(file, FALSE, "throw", "fallback")
    ELSE LET config == loadConfig(file)
         IN  IF \E i \in DOMAIN config.databases : config.databases[i] = newDatabaseId
             THEN PatchResult(file, FALSE, "false", "fallback")
             ELSE IF ~writable THEN PatchResult(file, FALSE, "exit", "fallback")
             ELSE PatchResult(
                    writeConfigFile(
                        [config EXCEPT !.databases = Append(@, newDatabaseId)],
                        file.isTS),
                    TRUE, "true", "fallback")

writeConfigFileWithAST(file, writable, newDatabaseId, name) ==
    IF ~file.parses THEN FallbackRewrite(file, writable, newDatabaseId)
    ELSE LET nodes == traverse(file.nodes, newDatabaseId, name)
             modified == nodes # file.nodes
         IN  IF ~modified THEN PatchResult(file, FALSE, "false", "ast")
             ELSE IF ~writable THEN FallbackRewrite(file, writable, newDatabaseId)
             ELSE PatchResult([file EXCEPT !.nodes = nodes, !.rendering = "generated"],
                              TRUE, "true", "ast")

(***************************************************************************)
(* Agent list sync of the config                                           *)
(***************************************************************************)
AgentUuids == {"u1", "u2"}
AgentId(uuid, dashed) == [uuid |-> uuid, dashed |-> dashed]
Agent(id, name) == [id |-> id, name |-> name]

\* a.id.replace(/-/g, "")
Undashed(id) == AgentId(id.uuid, FALSE)

\* agents.map(...): a string literal of the undashed id with the name of the
\* agent as its trailing comment.
newElements(agents) ==
    [i \in DOMAIN agents |-> StringLiteral(Undashed(agents[i].id), agents[i].name)]

\* existingElements.map(el => el.value): the values of the string literals
existingAgentIds(elements) ==
    LET existingElements == SelectSeq(elements, LAMBDA el : el.lit)
    IN  [i \in DOMAIN existingElements |-> existingElements[i].value]

\* A comparison of the two identifier sets alone.
needsUpdateBySet(agents, existing) ==
    {Undashed(agents[i].id) : i \in DOMAIN agents} # Range(existing)

needsUpdate(agents, existing) ==
    \/ Len(agents) # Len(existing)
    \/ \E i \in DOMAIN agents : Undashed(agents[i].id) \notin Range(existing)
    \/ \E i \in DOMAIN existing :
          existing[i] \notin {Undashed(agents[j].id) : j \in DOMAIN agents}

\* An object without an `agents` property gets one; an `agents` array literal
\* is replaced as a whole when it needs the update; any other value is left.
modifyAgentsInObject(objExpression, agents) ==
    IF objExpression.agents = "absent"
    THEN [objExpression EXCEPT !.agents = "ArrayExpression",
                               !.agentElements = newElements(agents)]
    ELSE IF /\ objExpression.agents = "ArrayExpression"
            /\ needsUpdate(agents, existingAgentIds(objExpression.agentElements))
    THEN [objExpression EXCEPT !.agentElements = newElements(agents)]
    ELSE objExpression

visitNodeForAgents(node, agents) ==
    IF /\ node.shape \in VisitedShapes
       /\ node.expr \in {"ObjectExpression", "TSSatisfiesExpression"}
    THEN modifyAgentsInObject(node, agents)
    ELSE node

traverseForAgents(nodes, agents) ==
    [i \in DOMAIN nodes |-> visitNodeForAgents(nodes[i], agents)]

\* The catch block of syncAgentsInConfigWithAST.
SyncFallbackRewrite(file, writable, agents) ==
    IF ~file.loadable THEN PatchResult(file, FALSE, "throw", "fallback")
    ELSE IF ~writable THEN PatchResult(file, FALSE, "exit", "fallback")
    ELSE PatchResult(
            writeConfigFile(
                [loadConfig(file) EXCEPT
                    !.hasAgents = TRUE,
                    !.agents = [i \in DOMAIN agents |-> Undashed(agents[i].id)]],
                file.isTS),
            TRUE, "true", "fallback")

syncAgentsInConfigWithAST(file, writable, agents) ==
    IF ~file.parses THEN SyncFallbackRewrite(file, writable, agents)
    ELSE LET nodes == traverseForAgents(file.nodes, agents)
             modified == nodes # file.nodes
         IN  IF ~modified THEN PatchResult(file, FALSE, "false", "ast")
             ELSE IF ~writable THEN SyncFallbackRewrite(file, writable, agents)
             ELSE PatchResult([file EXCEPT !.nodes = nodes, !.rendering = "generated"],
                              TRUE, "true", "ast")

(***************************************************************************)
(* Generation of database modules and the metadata cache                   *)
(*                                                                         *)
(* An identifier is a uuid written with or without dashes: the same entity *)
(* has two identifier strings.  The remote finds a data source by either   *)
(* and answers with the identifier in the form it uses itself.             *)
(***************************************************************************)
Uuids == {"u1", "u2"}
Id(uuid, dashed) == [uuid |-> uuid, dashed |-> dashed]
Ids == {Id(u, d) : u \in Uuids, d \in BOOLEAN}

\* id.replace(/-/g, "") of an identifier that matches the uuid pattern
validateAndGetUndashedUuid(id) == Id(id.uuid, FALSE)

Titles == { <<"B", "o", "o", "k", "s">>, <<"T", "o", " ", "d", "o">> }
ClassNames == [t \in Titles |-> camelize(t)]

\* {id, className, displayName, camelCaseName}
createMetadata(id, className, displayName) ==
    [id |-> id, className |-> className, displayName |-> displayName,
     camelCaseName |-> <<toLowerCase(className[1])>> \o Tail(className)]

\* Map.prototype.set: an entry of the same key is replaced where it is, a new
\* key goes last.
MapSet(map, entry) ==
    IF \E i \in DOMAIN map : map[i].id = entry.id
    THEN [i \in DOMAIN map |-> IF map[i].id = entry.id THEN entry ELSE map[i]]
    ELSE Append(map, entry)

\* [] when metadata.json is absent or is not JSON
readDatabaseMetadata(file) == IF file.state = "json" THEN file.entries ELSE <<>>

\* The map of the first n cached entries whose id is one of the config's.
RECURSIVE prepareIncrementalMetadata(_, _, _)
prepareIncrementalMetadata(configDatabaseIds, cached, n) ==
    IF n = 0 THEN <<>>
    ELSE LET metadataMap == prepareIncrementalMetadata(configDatabaseIds, cached, n - 1)
         IN  IF cached[n].id \in Range(configDatabaseIds)
             THEN MapSet(metadataMap, cached[n])
             ELSE metadataMap

\* The module files of a class are written, first <className>.ts.
WriteModule(files, className, id) ==
    {f \in files : f.className # className} \cup {[className |-> className, id |-> id]}

\* generateDatabaseTypes: the remote is asked for the data source and the
\* module files are written; either step can throw.
generateDatabaseTypes(databaseId, client, outcome) ==
    IF outcome[databaseId.uuid] # "ok" THEN [threw |-> TRUE]
    ELSE LET databaseName == client.titles[databaseId.uuid]
         IN  [threw |-> FALSE,
              meta |-> createMetadata(Id(databaseId.uuid, client.dashed),
                                      ClassNames[databaseName], databaseName)]

\* A full pass whose map starts from the cache on disk.
FullPassMapSeeded(cached) == cached

\* metadataMap = new Map() of a full pass
FullPassMap(cached) == <<>>

\* for (const databaseId of targetIds) { try { ... } catch { return { databaseNames: [] } } }
RECURSIVE GenerateEach(_, _, _, _, _)
GenerateEach(targetIds, i, client, outcome, st) ==
    IF i > Len(targetIds) THEN st
    ELSE LET out == generateDatabaseTypes(targetIds[i], client, outcome)
             tried == [st EXCEPT !.attempted = Append(@, targetIds[i])]
         IN  IF out.threw THEN [tried EXCEPT !.failed = TRUE]
             ELSE GenerateEach(targetIds, i + 1, client, outcome,
                    [tried EXCEPT
                        !.metadataMap = MapSet(@, out.meta),
                        !.databaseNames = Append(@, out.meta.displayName),
                        !.files = WriteModule(@, out.meta.className, out.meta.id)])

NoMetadataFile == [state |-> "absent", entries |-> <<>>]
NoBarrel == [present |-> FALSE, classNames |-> <<>>]

\* The output directory and the source index.
Output(files, metadata, barrelFile, index) ==
    [moduleFiles |-> files, metadataFile |-> metadata, barrel |-> barrelFile,
     sourceIndex |-> index]

PassResult(out, returned, databaseNames, attempted) ==
    [output |-> out, returned |-> returned, databaseNames |-> databaseNames,
     attempted |-> attempted]

\* An exit that comes after the cleanup of the output directory.
ExitAfterCleanup(fsBefore) ==
    PassResult(Output({}, NoMetadataFile, NoBarrel, fsBefore.sourceIndex),
               "exit", <<>>, <<>>)

\* console.error("Please pass some database Ids"); process.exit(1)
ExitWithoutTargets(fsBefore) == PassResult(fsBefore, "exit", <<>>, <<>>)

\* createDatabaseTypes, from the resolved config to the returned names.
createDatabaseTypes(options, config, client, outcome, fsBefore) ==
    IF ~config.auth THEN PassResult(fsBefore, "throw", <<>>, <<>>)
    ELSE LET isFullGenerate == options.type = "all"
             targetIds == IF isFullGenerate THEN config.databases ELSE <<options.id>>
         IN
         IF Len(targetIds) = 0 THEN ExitWithoutTargets(fsBefore)
         ELSE LET cleared == IF isFullGenerate
                             THEN Output({}, NoMetadataFile, NoBarrel, fsBefore.sourceIndex)
                             ELSE fsBefore
                  cached == readDatabaseMetadata(fsBefore.metadataFile)
                  metadataMap == IF isFullGenerate THEN FullPassMap(cached)
                                 ELSE prepareIncrementalMetadata(config.databases,
                                          cached, Len(cached))
                  st == GenerateEach(targetIds, 1, client, outcome,
                            [metadataMap |-> metadataMap, databaseNames |-> <<>>,
                             files |-> cleared.moduleFiles, attempted |-> <<>>,
                             failed |-> FALSE])
              IN  IF st.failed
                  THEN PassResult([cleared EXCEPT !.moduleFiles = st.files],
                                  "names", <<>>, st.attempted)
                  ELSE PassResult(
                         Output(st.files,
                                [state |-> "json", entries |-> st.metadataMap],
                                [present |-> TRUE,
                                 classNames |-> [i \in DOMAIN st.metadataMap |->
                                                    st.metadataMap[i].className]],
                                [i \in DOMAIN st.metadataMap |->
                                    st.metadataMap[i].camelCaseName]),
                         "names", st.databaseNames, st.attempted)

(***************************************************************************)
(* The resolved config of a process and `notion add`                       *)
(*                                                                         *)
(* import() evaluates the module of a URL once in a process: every later   *)
(* import of the same URL gives the module object of the first one,        *)
(* whatever the file holds by then.                                        *)
(***************************************************************************)
NoLoadedConfig == [databases |-> <<>>, hasAgents |-> FALSE, agents |-> <<>>]
NotImported == [loaded |-> FALSE, config |-> NoLoadedConfig]
NotCached == [set |-> FALSE, config |-> NoLoadedConfig]

\* loadUserConfig / loadConfig: `(await import(importPath)).default`
loadUserConfig(registry, file) ==
    IF registry.loaded
    THEN [threw |-> FALSE, config |-> registry.config, registry |-> registry]
    ELSE IF ~file.loadable
    THEN [threw |-> TRUE, config |-> NoLoadedConfig, registry |-> registry]
    ELSE [threw |-> FALSE, config |-> loadConfig(file),
          registry |-> [loaded |-> TRUE, config |-> loadConfig(file)]]

\* getNotionConfig, with a config file in the project root: the cached
\* config when there is one; else the config is loaded, rejected without
\* `auth`, and cached.
getNotionConfig(cached, registry, file, auth) ==
    IF cached.set
    THEN [threw |-> FALSE, config |-> cached.config, cached |-> cached,
          registry |-> registry]
    ELSE LET loaded == loadUserConfig(registry, file)
         IN  IF loaded.threw \/ ~auth
             THEN [threw |-> TRUE, config |-> NoLoadedConfig, cached |-> cached,
                   registry |-> loaded.registry]
             ELSE [threw |-> FALSE, config |-> loaded.config,
                   cached |-> [set |-> TRUE, config |-> loaded.config],
                   registry |-> loaded.registry]

\* cachedConfig = undefined
clearConfigCache(cached) == NotCached

\* databaseObject.title[0].plain_text, as the text of the trailing comment
DatabaseComment == [t \in Titles |->
                      IF t = <<"B", "o", "o", "k", "s">> THEN "Books" ELSE "To do"]

AddResult(file, out, steps, returned, patched, generation, names) ==
    [file |-> file, output |-> out, steps |-> steps, returned |-> returned,
     patched |-> patched, generationConfig |-> generation, databaseNames |-> names]

\* runAdd in a process of its own, with a config file in the project root
\* and an input of the identifier format: the config is loaded, the name of
\* the data source is asked for (a failure is caught), the identifier is
\* appended to the config unless the loaded config lists it, and the types
\* are generated with the config that getNotionConfig resolves then.
runAdd(input, file, writable, auth, client, visible, outcome, fsBefore) ==
    LET undashedUuid == validateAndGetUndashedUuid(input)
        first == loadUserConfig(NotImported, file)
        config == first.config
        databaseName == IF auth /\ visible
                        THEN DatabaseComment[client.titles[undashedUuid.uuid]]
                        ELSE ""
        listed == \E i \in DOMAIN config.databases : config.databases[i] = undashedUuid
        patched == IF listed
                   THEN PatchResult(file, FALSE, "none", "none")
                   ELSE writeConfigFileWithAST(file, writable, undashedUuid, databaseName)
        stepsToPatch == IF listed THEN <<"loadConfig", "retrieve">>
                        ELSE <<"loadConfig", "retrieve", "writeConfigFileWithAST">>
        \* the fallback pushes the identifier onto the loaded config object
        registry == IF patched.path = "fallback" /\ patched.returned = "true"
                    THEN [first.registry EXCEPT
                            !.config.databases = Append(@, undashedUuid)]
                    ELSE first.registry
        second == getNotionConfig(clearConfigCache(NotCached), registry,
                                  patched.file, auth)
        generated == createDatabaseTypes(
                        [type |-> "incremental", id |-> undashedUuid],
                        [auth |-> auth, databases |-> second.config.databases],
                        client, outcome, fsBefore)
    IN  IF first.threw
        THEN AddResult(file, fsBefore, <<"loadConfig">>, "throw",
                       PatchResult(file, FALSE, "none", "none"),
                       NoLoadedConfig, <<>>)
        ELSE IF patched.returned = "exit"
        THEN AddResult(patched.file, fsBefore, stepsToPatch, "exit", patched,
                       NoLoadedConfig, <<>>)
        ELSE IF second.threw
        THEN AddResult(patched.file, fsBefore,
                       Append(stepsToPatch, "getNotionConfig"), "throw", patched,
                       NoLoadedConfig, <<>>)
        ELSE AddResult(patched.file, generated.output,
                       stepsToPatch \o <<"getNotionConfig", "createDatabaseTypes">>,
                       "done", patched, second.config, generated.databaseNames)

(***************************************************************************)
(* The module generated for one data source                                *)
(***************************************************************************)
\* A member of the generated DatabaseSchemaType: `name: T` or `name?: T`.
PropertySignature(name, questionToken, type) ==
    [name |-> name, optional |-> questionToken, type |-> type]

createTextProperty(name, isTitle) == PropertySignature(name, ~isTitle, "string")
createNumberProperty(name) == PropertySignature(name, TRUE, "number")
createDateProperty(name) == PropertySignature(name, TRUE, "date")
createCheckboxProperty(name) == PropertySignature(name, TRUE, "boolean")
createMultiOptionProp(name, isArray) ==
    PropertySignature(name, TRUE, IF isArray THEN "array_union" ELSE "union")

toPascalCase(value) ==
    IF value = <<>> THEN value ELSE <<toUpperCase(value[1])>> \o Tail(value)

PropertyValuesSuffix ==
    <<"P","r","o","p","e","r","t","y","V","a","l","u","e","s">>

\* export const <identifier> = [...options] as const
createPropertyValuesArray(identifier, options) ==
    [identifier |-> identifier, options |-> options]

TextKinds == {"title", "rich_text", "email", "phone_number", "url", "unique_id"}
ChoiceKinds == {"select", "status", "multi_select"}

\* propertyASTGenerators[propertyType]({camelizedName, columnValue}); the
\* enum statement is a list of at most one statement.
propertyASTGenerators(propertyType, camelizedName, columnValue) ==
    LET propertyValuesIdentifier == toPascalCase(camelizedName) \o PropertyValuesSuffix
    IN  IF propertyType \in ChoiceKinds
        THEN [tsPropertySignature |->
                 createMultiOptionProp(camelizedName, propertyType = "multi_select"),
              zodMeta |-> [isRequired |-> IsRequired(propertyType),
                           options |-> columnValue.options],
              enumConstStatement |->
                 <<createPropertyValuesArray(propertyValuesIdentifier,
                                             columnValue.options)>>]
        ELSE [tsPropertySignature |->
                 CASE propertyType \in TextKinds ->
                        createTextProperty(camelizedName, propertyType = "title")
                   [] propertyType = "number" -> createNumberProperty(camelizedName)
                   [] propertyType = "date" -> createDateProperty(camelizedName)
                   [] propertyType = "checkbox" -> createCheckboxProperty(camelizedName),
              zodMeta |-> [isRequired |-> IsRequired(propertyType), options |-> <<>>],
              enumConstStatement |-> <<>>]

NoStatements == [databaseColumnTypeProps |-> <<>>, enumConstStatements |-> <<>>,
                 zodColumns |-> <<>>, skipped |-> <<>>]

\* Object.entries(properties).forEach(...) over the first n properties: what
\* is pushed to the three lists, and the properties reported as skipped.
RECURSIVE EachProperty(_, _)
EachProperty(properties, n) ==
    IF n = 0 THEN NoStatements
    ELSE LET st == EachProperty(properties, n - 1)
             value == properties[n]
         IN  IF ~isSupportedPropertyType(value.type)
             THEN [st EXCEPT !.skipped = Append(@, value.name)]
             ELSE LET camelizedColumnName == camelize(value.name)
                      result == propertyASTGenerators(value.type,
                                                      camelizedColumnName, value)
                  IN  [st EXCEPT
                         !.databaseColumnTypeProps = Append(@, result.tsPropertySignature),
                         !.enumConstStatements = @ \o result.enumConstStatement,
                         !.zodColumns = Append(@,
                             [propName |-> camelizedColumnName,
                              columnName |-> value.name,
                              type |-> value.type,
                              zod |-> createZodPropertyExpression(
                                        [type |-> value.type,
                                         isRequired |-> result.zodMeta.isRequired,
                                         options |-> result.zodMeta.options])])]

NoModule == [written |-> FALSE, databaseColumnTypeProps |-> <<>>,
             enumConstStatements |-> <<>>, zodColumns |-> <<>>, skipped |-> <<>>,
             camelPropertyNameToNameAndTypeMap |-> <<>>]

\* createTypescriptFileForDatabase: the statements of the module that is
\* printed and written.
createTypescriptFileForDatabase(properties) ==
    LET st == EachProperty(properties, Len(properties))
    IN  [written |-> TRUE,
         databaseColumnTypeProps |-> st.databaseColumnTypeProps,
         enumConstStatements |-> st.enumConstStatements,
         zodColumns |-> st.zodColumns,
         skipped |-> st.skipped,
         camelPropertyNameToNameAndTypeMap |->
             BuildColumnMap(properties, Len(properties))]

(***************************************************************************)
(* Specifications                                                          *)
(***************************************************************************)
FilterIdle == /\ queryFilter = <<>>
              /\ wire = NotCompiled

ClientIdle == /\ loggedSchemaValidationIssues = {}
              /\ consoleErrors = <<>>
              /\ validations = 0
              /\ lastRow = <<>>
              /\ lastEmitted = <<>>
              /\ remoteRows = <<>>
              /\ query = NoQuery
              /\ queries = 0
              /\ added = NoAdd
              /\ pageAdds = 0

NoFile == [isTS |-> FALSE, parses |-> FALSE, loadable |-> FALSE,
           rendering |-> "none", nodes |-> <<>>]
NoPatch == [called |-> FALSE, newDatabaseId |-> "", name |-> "", before |-> NoFile,
            wrote |-> FALSE, returned |-> "none", path |-> "none"]

NoSync == [called |-> FALSE, op |-> "none", agents |-> <<>>, newDatabaseId |-> "",
           before |-> NoFile, wrote |-> FALSE, returned |-> "none", path |-> "none"]

PatchIdle == /\ configFile = NoFile
             /\ fsWritable = FALSE
             /\ patch = NoPatch
             /\ adds = 0
             /\ sync = NoSync
             /\ syncs = 0

NoRemote == [dashed |-> FALSE, titles |-> <<>>]
NoConfig == [auth |-> FALSE, databases |-> <<>>]
NoPass == [ran |-> FALSE, options |-> [type |-> "none", id |-> Id("", FALSE)],
           config |-> NoConfig, outcome |-> <<>>,
           before |-> Output({}, NoMetadataFile, NoBarrel, <<>>),
           returned |-> "none", databaseNames |-> <<>>, attempted |-> <<>>]

GenIdle == /\ notionConfig = NoConfig
           /\ remote = NoRemote
           /\ disk = Output({}, NoMetadataFile, NoBarrel, <<>>)
           /\ pass = NoPass
           /\ passes = 0

EmitIdle == /\ dataSourceResponse = <<>>
            /\ generatedModule = NoModule

NoResolved == [called |-> FALSE, threw |-> FALSE, config |-> NoLoadedConfig]
NoAddRun == [called |-> FALSE, input |-> Id("", FALSE), before |-> NoFile,
             after |-> NoFile,
             visible |-> FALSE, steps |-> <<>>, returned |-> "none",
             patched |-> PatchResult(NoFile, FALSE, "none", "none"),
             generationConfig |-> NoLoadedConfig, databaseNames |-> <<>>]

AddIdle == /\ configAuth = FALSE
           /\ cachedConfig = NotCached
           /\ importedModule = NotImported
           /\ resolved = NoResolved
           /\ addRun = NoAddRun

CliIdle == PatchIdle /\ GenIdle /\ EmitIdle /\ AddIdle

NoResponseValue == [called |-> FALSE, prop |-> "", x |-> Prop("", VUndefined),
                    value |-> VUndefined]
SimplifyIdle == responseValue = NoResponseValue

FilterInit ==
    /\ queryFilter \in BaseFilters
    /\ wire = NotCompiled
    /\ ClientIdle
    /\ SimplifyIdle
    /\ CliIdle

\* The caller nests the filter it has in a compound filter.
WrapFilter ==
    /\ Depth(queryFilter) < MaxDepth
    /\ \E op \in {kAnd, kOr} : \E children \in ChildLists(queryFilter) :
          queryFilter' = Compound(op, children)
    /\ wire' = NotCompiled
    /\ UNCHANGED <<clientVars, simplifyVars, cliVars>>

BuildFilter ==
    /\ wire = NotCompiled
    /\ wire' = recursivelyBuildFilter(queryFilter, camelPropertyNameToNameAndTypeMap)
    /\ UNCHANGED <<queryFilter, clientVars, simplifyVars, cliVars>>

FilterNext == WrapFilter \/ BuildFilter

SpecFilter == FilterInit /\ [][FilterNext]_vars

\* The simplifier on one remote property, under the type of a mapping entry.
SimplifyInit ==
    /\ FilterIdle
    /\ ClientIdle
    /\ CliIdle
    /\ \E prop \in SimplifyKinds : \E x \in RemoteProperties :
          responseValue = [NoResponseValue EXCEPT !.prop = prop, !.x = x]

GetResponseValue ==
    /\ ~responseValue.called
    /\ responseValue' = [responseValue EXCEPT
                            !.called = TRUE,
                            !.value = getResponseValue(responseValue.prop,
                                                       responseValue.x)]
    /\ UNCHANGED <<filterVars, clientVars, cliVars>>

SimplifyNext == GetResponseValue

SpecSimplify == SimplifyInit /\ [][SimplifyNext]_vars

\* One DatabaseClient, its validator called with simplified rows.
DriftInit == FilterIdle /\ ClientIdle /\ SimplifyIdle /\ CliIdle

ValidateSchema ==
    /\ validations < MaxValidations
    /\ \E row \in DriftRows :
          LET out == validateDatabaseSchema(loggedSchemaValidationIssues,
                         camelPropertyNameToNameAndTypeMap, schema, row)
          IN  /\ loggedSchemaValidationIssues' = out.logged
              /\ lastEmitted' = out.emitted
              /\ consoleErrors' = consoleErrors \o out.emitted
              /\ lastRow' = row
    /\ validations' = validations + 1
    /\ UNCHANGED <<filterVars, simplifyVars, remoteRows, query, queries, added, pageAdds, cliVars>>

DriftNext == ValidateSchema

SpecDrift == DriftInit /\ [][DriftNext]_vars

\* One DatabaseClient, queried.
ClientInit ==
    /\ FilterIdle
    /\ SimplifyIdle
    /\ loggedSchemaValidationIssues = {}
    /\ consoleErrors = <<>>
    /\ validations = 0
    /\ lastRow = <<>>
    /\ lastEmitted = <<>>
    /\ remoteRows \in Responses(MaxRows)
    /\ query = NoQuery
    /\ queries = 0
    /\ added = NoAdd
    /\ pageAdds = 0
    /\ CliIdle

\* add neither reads nor writes anything a query reads or writes, so the two
\* commute: the queries of a client are taken before its adds.
Query ==
    /\ queries < MaxQueries
    /\ pageAdds = 0
    /\ \E in \in QueryInputs : DoQuery(in.filter, in.sort, remoteRows)
    /\ queries' = queries + 1
    /\ UNCHANGED <<filterVars, simplifyVars, validations, lastRow, remoteRows, added, pageAdds,
                   cliVars>>

\* A page is added through the client; for each property the value builder
\* gives a column object or nothing.
AddPage ==
    /\ pageAdds < MaxPageAdds
    /\ \E pageObject \in PageObjects : \E built \in SUBSET DOMAIN pageObject :
          added' = add(pageObject, camelPropertyNameToNameAndTypeMap, built)
    /\ pageAdds' = pageAdds + 1
    /\ UNCHANGED <<filterVars, simplifyVars, loggedSchemaValidationIssues, consoleErrors,
                   validations, lastRow, lastEmitted, remoteRows, query, queries,
                   cliVars>>

ClientNext == Query \/ AddPage

SpecClient == ClientInit /\ [][ClientNext]_vars

\* The config sources the patcher is run on.
ElementSeqs(n) ==
    UNION { [1..k -> {StringLiteral("a", ""), StringLiteral("b", ""), OtherElement("a")}]
            : k \in 0..n }

PatchedNodes ==
    { ObjectNode(shape, expr, "ArrayExpression", elements) :
        shape \in VisitedShapes,
        expr \in {"ObjectExpression", "TSSatisfiesExpression"},
        elements \in ElementSeqs(MaxElements) }

SkippedNodes ==
    UNION { { ObjectNode("ExportDefaultDeclaration", "CallExpression", "ArrayExpression", elements),
              ObjectNode("VariableDeclarator", "TSAsExpression", "ArrayExpression", elements),
              ObjectNode("MemberAssignment", "ObjectExpression", "ArrayExpression", elements),
              ObjectNode("VariableDeclarator", "ObjectExpression", "Identifier", elements) }
            : elements \in ElementSeqs(1) }
    \cup { ObjectNode("ExportsAssignment", "ObjectExpression", "absent", <<>>) }

LeadingNodes ==
    { ObjectNode("VariableDeclarator", "ObjectExpression", "ArrayExpression", <<>>),
      ObjectNode("VariableDeclarator", "ObjectExpression", "ArrayExpression",
                 <<StringLiteral("a", "")>>),
      ObjectNode("VariableDeclarator", "CallExpression", "ArrayExpression",
                 <<StringLiteral("b", "")>>) }

TrailingNodes ==
    { ObjectNode("ExportDefaultDeclaration", "ObjectExpression", "ArrayExpression",
                 <<StringLiteral("a", "")>>),
      ObjectNode("ExportDefaultDeclaration", "TSSatisfiesExpression", "ArrayExpression",
                 <<StringLiteral("b", ""), OtherElement("a")>>),
      ObjectNode("ExportsAssignment", "ObjectExpression", "absent", <<>>) }

RECURSIVE NodeSeqs(_)
NodeSeqs(n) ==
    IF n = 1 THEN {<<d>> : d \in PatchedNodes \cup SkippedNodes}
    ELSE NodeSeqs(n - 1)
         \cup { <<d>> \o tail : d \in LeadingNodes,
                 tail \in { t \in NodeSeqs(n - 1) :
                              Len(t) = n - 1 /\ t[Len(t)] \in TrailingNodes } }

ConfigFiles ==
    { [isTS |-> isTS, parses |-> parses, loadable |-> loadable,
       rendering |-> "source", nodes |-> nodes] :
        isTS \in BOOLEAN, parses \in BOOLEAN, loadable \in BOOLEAN,
        nodes \in NodeSeqs(MaxNodes) }

PatchInit ==
    /\ FilterIdle
    /\ SimplifyIdle
    /\ ClientIdle
    /\ GenIdle
    /\ EmitIdle
    /\ AddIdle
    /\ configFile \in ConfigFiles
    /\ fsWritable \in BOOLEAN
    /\ patch = NoPatch
    /\ adds = 0
    /\ sync = NoSync
    /\ syncs = 0

\* `notion add <id>` reaches the patcher with an identifier and, when the
\* remote gave one, the name of the database.
AddDatabase ==
    /\ adds < MaxAdds
    /\ \E newDatabaseId \in DatabaseIds : \E name \in CommentNames :
          LET out == writeConfigFileWithAST(configFile, fsWritable, newDatabaseId, name)
          IN  /\ configFile' = out.file
              /\ patch' = [called |-> TRUE, newDatabaseId |-> newDatabaseId,
                           name |-> name, before |-> configFile,
                           wrote |-> out.wrote, returned |-> out.returned,
                           path |-> out.path]
    /\ adds' = adds + 1
    /\ UNCHANGED <<filterVars, simplifyVars, clientVars, fsWritable, sync, syncs, genVars, emitVars,
                   addVars>>

PatchNext == AddDatabase

SpecPatch == PatchInit /\ [][PatchNext]_vars

\* Config sources with an `agents` property: the arrays a config can hold,
\* an identifier twice or with its dashes and an element that is not a
\* string literal among them.
AgentArrays ==
    { <<>>,
      <<StringLiteral(AgentId("u1", FALSE), "")>>,
      <<StringLiteral(AgentId("u1", TRUE), "")>>,
      <<StringLiteral(AgentId("u1", FALSE), ""), StringLiteral(AgentId("u1", FALSE), "")>>,
      <<StringLiteral(AgentId("u1", FALSE), ""), StringLiteral(AgentId("u2", FALSE), "")>>,
      <<StringLiteral(AgentId("u2", FALSE), ""), StringLiteral(AgentId("u1", FALSE), "")>>,
      <<OtherElement(AgentId("u2", FALSE)), StringLiteral(AgentId("u1", FALSE), "")>> }

\* The object the config file exports.
ExportedNodes ==
    { ConfigNode(d[1], d[2], "ArrayExpression", <<StringLiteral("a", "")>>, a, elements) :
        d \in { <<"ExportDefaultDeclaration", "ObjectExpression">>,
                <<"ExportsAssignment", "TSSatisfiesExpression">>,
                <<"ExportDefaultDeclaration", "CallExpression">> },
        a \in {"ArrayExpression"}, elements \in AgentArrays }
    \cup { ConfigNode("ExportDefaultDeclaration", "ObjectExpression", "ArrayExpression",
                      <<StringLiteral("a", "")>>, "absent", <<>>),
           ConfigNode("ExportsAssignment", "ObjectExpression", "ArrayExpression",
                      <<StringLiteral("a", "")>>, "Identifier",
                      <<OtherElement(AgentId("u1", FALSE))>>) }

\* `const options = { ... }`: an object literal declared before the config.
OtherDeclaration == ObjectNode("VariableDeclarator", "ObjectExpression", "absent", <<>>)

SyncedFiles ==
    { [isTS |-> isTS, parses |-> parses, loadable |-> loadable,
       rendering |-> "source",
       nodes |-> [i \in 1..k |-> OtherDeclaration] \o <<exported>>] :
        isTS \in BOOLEAN, parses \in BOOLEAN, loadable \in BOOLEAN,
        k \in 0..(MaxNodes - 1), exported \in ExportedNodes }

\* The agents of a listing: no agent twice, identifiers in either form.
AgentLists ==
    { l \in UNION { [1..k -> {Agent(AgentId(u, d), "Bot") :
                                u \in AgentUuids, d \in BOOLEAN}] :
                      k \in 0..MaxAgents } :
        \A i, j \in DOMAIN l : l[i].id.uuid = l[j].id.uuid => i = j }

SyncInit ==
    /\ FilterIdle
    /\ SimplifyIdle
    /\ ClientIdle
    /\ GenIdle
    /\ EmitIdle
    /\ AddIdle
    /\ configFile \in SyncedFiles
    /\ fsWritable \in BOOLEAN
    /\ patch = NoPatch
    /\ adds = 0
    /\ sync = NoSync
    /\ syncs = 0

\* Agent generation syncs the config with the agents the remote lists.
SyncAgents ==
    /\ syncs < MaxSyncs
    /\ \E agents \in AgentLists :
          LET out == syncAgentsInConfigWithAST(configFile, fsWritable, agents)
          IN  /\ configFile' = out.file
              /\ sync' = [called |-> TRUE, op |-> "sync", agents |-> agents,
                          newDatabaseId |-> "", before |-> configFile,
                          wrote |-> out.wrote, returned |-> out.returned,
                          path |-> out.path]
    /\ syncs' = syncs + 1
    /\ UNCHANGED <<filterVars, simplifyVars, clientVars, fsWritable, patch, adds, genVars, emitVars,
                   addVars>>

\* `notion add <id>` on the same config source.
AppendDatabase ==
    /\ syncs < MaxSyncs
    /\ \E newDatabaseId \in DatabaseIds :
          LET out == writeConfigFileWithAST(configFile, fsWritable, newDatabaseId, "Books")
          IN  /\ configFile' = out.file
              /\ sync' = [called |-> TRUE, op |-> "append", agents |-> <<>>,
                          newDatabaseId |-> newDatabaseId, before |-> configFile,
                          wrote |-> out.wrote, returned |-> out.returned,
                          path |-> out.path]
    /\ syncs' = syncs + 1
    /\ UNCHANGED <<filterVars, simplifyVars, clientVars, fsWritable, patch, adds, genVars, emitVars,
                   addVars>>

SyncNext == SyncAgents \/ AppendDatabase

SpecSync == SyncInit /\ [][SyncNext]_vars

\* Generation: the config lists identifiers in either form, nothing has been
\* generated yet.
DatabaseLists ==
    UNION { [1..k -> Ids] : k \in 0..MaxConfigured }

\* For each data source, whether generating it goes through or throws
\* (client.dataSources.retrieve rejects, or a module file cannot be written).
Outcomes == [Uuids -> {"ok", "throws"}]

PassOptions ==
    {[type |-> "all", id |-> Id("", FALSE)]}
    \cup {[type |-> "incremental", id |-> validateAndGetUndashedUuid(id)] : id \in Ids}

\* Two data sources with titles of their own, or with the same title.
RemoteTitles ==
    { [u \in Uuids |-> IF u = "u1" THEN <<"B", "o", "o", "k", "s">>
                                   ELSE <<"T", "o", " ", "d", "o">>],
      [u \in Uuids |-> <<"B", "o", "o", "k", "s">>] }

GenInit ==
    /\ FilterIdle
    /\ SimplifyIdle
    /\ ClientIdle
    /\ PatchIdle
    /\ EmitIdle
    /\ AddIdle
    /\ notionConfig \in {[auth |-> a, databases |-> d] :
                            a \in BOOLEAN, d \in DatabaseLists}
    /\ remote \in {[dashed |-> d, titles |-> t] : d \in BOOLEAN, t \in RemoteTitles}
    /\ disk = Output({}, NoMetadataFile, NoBarrel, <<>>)
    /\ pass = NoPass
    /\ passes = 0

\* The user takes an identifier off the databases list of the config.
EditConfig ==
    /\ passes < MaxPasses
    /\ \E i \in DOMAIN notionConfig.databases :
          notionConfig' = [notionConfig EXCEPT !.databases =
              SubSeq(@, 1, i - 1) \o SubSeq(@, i + 1, Len(@))]
    /\ UNCHANGED <<filterVars, simplifyVars, clientVars, patchVars, emitVars, addVars, remote, disk,
                   pass, passes>>

\* `notion generate` (all) or the generation step of `notion add` (incremental).
RunCreateDatabaseTypes ==
    /\ passes < MaxPasses
    /\ \E options \in PassOptions : \E outcome \in Outcomes :
          LET out == createDatabaseTypes(options, notionConfig, remote, outcome, disk)
          IN  /\ disk' = out.output
              /\ pass' = [ran |-> TRUE, options |-> options, config |-> notionConfig,
                          outcome |-> outcome, before |-> disk,
                          returned |-> out.returned,
                          databaseNames |-> out.databaseNames,
                          attempted |-> out.attempted]
    /\ passes' = passes + 1
    /\ UNCHANGED <<filterVars, simplifyVars, clientVars, patchVars, emitVars, addVars, notionConfig,
                   remote>>

GenNext == EditConfig \/ RunCreateDatabaseTypes

SpecGen == GenInit /\ [][GenNext]_vars

\* Module generation: a data source with properties of any kind, two of
\* whose names camelize to the same SemanticName.
cBookRatingLower == <<"b","o","o","k"," ","r","a","t","i","n","g">>
PropertyNames == {cBookRating, cBookRatingLower, cPrice}

\* A property of a response: choice kinds come with or without options.
PropertyDescriptors ==
    {[name |-> n, type |-> t, options |-> o] :
        n \in PropertyNames, t \in SupportedTypes \cup UnsupportedTypes,
        o \in {<<>>}}
    \cup {[name |-> n, type |-> t, options |-> <<"Good", "Bad">>] :
            n \in PropertyNames, t \in ChoiceKinds}

\* The properties object of a response: no name twice.
PropertyLists ==
    {l \in UNION { [1..k -> PropertyDescriptors] : k \in 0..MaxProperties } :
        \A i, j \in DOMAIN l : l[i].name = l[j].name => i = j}

\* The filters handed to a generated client: a leaf, or one compound over
\* leaves, on the names of its column mapping.
ModuleFilters(names) ==
    LET leaves == {Leaf(n, [op |-> "equals", operand |-> "Good"]) : n \in names}
    IN  leaves \cup {Compound(kAnd, l) :
                        l \in UNION { [1..k -> leaves] : k \in 1..MaxChildren }}

EmitInit ==
    /\ FilterIdle
    /\ SimplifyIdle
    /\ ClientIdle
    /\ PatchIdle
    /\ GenIdle
    /\ AddIdle
    /\ dataSourceResponse \in PropertyLists
    /\ generatedModule = NoModule

CreateTypescriptFile ==
    /\ ~generatedModule.written
    /\ generatedModule' = createTypescriptFileForDatabase(dataSourceResponse)
    /\ UNCHANGED <<filterVars, simplifyVars, clientVars, patchVars, genVars, addVars,
                   dataSourceResponse>>

\* A filter over the names of the generated mapping is compiled with it.
CompileWithModule ==
    /\ generatedModule.written
    /\ wire = NotCompiled
    /\ \E qf \in ModuleFilters(Keys(generatedModule.camelPropertyNameToNameAndTypeMap)) :
          /\ queryFilter' = qf
          /\ wire' = recursivelyBuildFilter(qf,
                         generatedModule.camelPropertyNameToNameAndTypeMap)
    /\ UNCHANGED <<clientVars, simplifyVars, cliVars>>

EmitNext == CreateTypescriptFile \/ CompileWithModule

SpecEmit == EmitInit /\ [][EmitNext]_vars

\* `notion add` and the resolved config: a config file in the project root
\* whose `databases` array holds undashed identifiers, under `export default`
\* as an object literal or wrapped in a call.
ListedIds == UNION { [1..k -> {Id(u, FALSE) : u \in Uuids}] : k \in 0..(MaxConfigured - 1) }

AddConfigNodes ==
    { << ObjectNode("ExportDefaultDeclaration", expr, "ArrayExpression",
                    [i \in DOMAIN ids |-> StringLiteral(ids[i], "")]) >> :
        expr \in {"ObjectExpression", "CallExpression"}, ids \in ListedIds }

AddConfigFiles ==
    { [isTS |-> TRUE, parses |-> parses, loadable |-> loadable,
       rendering |-> "source", nodes |-> nodes] :
        parses \in BOOLEAN, loadable \in BOOLEAN, nodes \in AddConfigNodes }

AddInit ==
    /\ FilterIdle
    /\ SimplifyIdle
    /\ ClientIdle
    /\ EmitIdle
    /\ configFile \in AddConfigFiles
    /\ fsWritable \in BOOLEAN
    /\ patch = NoPatch
    /\ adds = 0
    /\ sync = NoSync
    /\ syncs = 0
    /\ notionConfig = NoConfig
    /\ remote \in {[dashed |-> d, titles |-> t] : d \in BOOLEAN, t \in RemoteTitles}
    /\ disk = Output({}, NoMetadataFile, NoBarrel, <<>>)
    /\ pass = NoPass
    /\ passes = 0
    /\ configAuth \in BOOLEAN
    /\ cachedConfig = NotCached
    /\ importedModule = NotImported
    /\ resolved = NoResolved
    /\ addRun = NoAddRun

\* Code of the process asks for the resolved config.
GetNotionConfig ==
    /\ LET out == getNotionConfig(cachedConfig, importedModule, configFile, configAuth)
       IN  /\ resolved' = [called |-> TRUE, threw |-> out.threw, config |-> out.config]
           /\ cachedConfig' = out.cached
           /\ importedModule' = out.registry
    /\ UNCHANGED <<filterVars, simplifyVars, clientVars, patchVars, genVars, emitVars, configAuth,
                   addRun>>

ClearConfigCache ==
    /\ cachedConfig' = clearConfigCache(cachedConfig)
    /\ UNCHANGED <<filterVars, simplifyVars, clientVars, patchVars, genVars, emitVars, configAuth,
                   importedModule, resolved, addRun>>

\* The databases list of the config file is edited while the process runs.
EditConfigFile ==
    /\ \E nodes \in AddConfigNodes :
          /\ nodes[1].expr = configFile.nodes[Len(configFile.nodes)].expr
          /\ configFile' = [configFile EXCEPT !.nodes = nodes, !.rendering = "source"]
    /\ UNCHANGED <<filterVars, simplifyVars, clientVars, fsWritable, patch, adds, sync, syncs,
                   genVars, emitVars, addVars>>

\* `notion add <id>`: a process of its own, which ends with the command.
RunAdd ==
    /\ adds < MaxAddRuns
    /\ ~importedModule.loaded
    /\ ~cachedConfig.set
    /\ \E input \in Ids : \E visible \in BOOLEAN : \E outcome \in Outcomes :
          LET out == runAdd(input, configFile, fsWritable, configAuth, remote,
                            visible, outcome, disk)
          IN  /\ configFile' = out.file
              /\ disk' = out.output
              /\ addRun' = [called |-> TRUE, input |-> input, before |-> configFile,
                            after |-> out.file,
                            visible |-> configAuth /\ visible, steps |-> out.steps,
                            returned |-> out.returned, patched |-> out.patched,
                            generationConfig |-> out.generationConfig,
                            databaseNames |-> out.databaseNames]
    /\ adds' = adds + 1
    /\ UNCHANGED <<filterVars, simplifyVars, clientVars, fsWritable, patch, sync, syncs,
                   notionConfig, remote, pass, passes, emitVars, configAuth,
                   cachedConfig, importedModule, resolved>>

\* The process ends and another one starts.
NewProcess ==
    /\ importedModule.loaded
    /\ cachedConfig' = NotCached
    /\ importedModule' = NotImported
    /\ resolved' = NoResolved
    /\ UNCHANGED <<filterVars, simplifyVars, clientVars, patchVars, genVars, emitVars, configAuth,
                   addRun>>

AddNext == GetNotionConfig \/ ClearConfigCache \/ EditConfigFile \/ RunAdd \/ NewProcess

SpecAdd == AddInit /\ [][AddNext]_vars

(***************************************************************************)
(* Properties of the filter compiler                                       *)
(***************************************************************************)
\* Every object of the filter has one key: `and`/`or` over a list of such
\* filters, or a SemanticName of the column mapping over a condition.
RECURSIVE WellFormedFilter(_, _)
WellFormedFilter(qf, map) ==
    /\ Len(qf) = 1
    /\ IF qf[1].key \in {kAnd, kOr}
       THEN /\ qf[1].isList
            /\ \A i \in DOMAIN qf[1].sub : WellFormedFilter(qf[1].sub[i], map)
       ELSE /\ ~qf[1].isList
            /\ HasKey(map, qf[1].key)

\* The wire object w is the image of the filter qf: same operator, same number
\* of children in the same order, and at a leaf the remote name and the kind
\* of the column with the condition unchanged.
RECURSIVE WireMatches(_, _, _)
WireMatches(qf, w, map) ==
    IF qf[1].isList
    THEN /\ w.kind = (IF qf[1].key = kAnd THEN "and" ELSE "or")
         /\ Len(w.children) = Len(qf[1].sub)
         /\ \A i \in DOMAIN qf[1].sub : WireMatches(qf[1].sub[i], w.children[i], map)
    ELSE /\ w.kind = "single"
         /\ \E j \in DOMAIN map :
               /\ map[j].key = qf[1].key
               /\ w.property = map[j].columnName
               /\ w.type = map[j].type
         /\ w.cond = qf[1].cond
         /\ w.children = <<>>

\* C1: a compound filter compiles to a wire object with the same operator
\* whose array holds the compiled children, same count and same order, at any
\* nesting depth, and a leaf {name: condition} compiles to
\* {property: M[name].columnName, [M[name].type]: condition}.
C1_FilterCompiles ==
    (wire # NotCompiled /\ WellFormedFilter(queryFilter, camelPropertyNameToNameAndTypeMap))
        => WireMatches(queryFilter, wire, camelPropertyNameToNameAndTypeMap)

\* A compiled filter nested two deep whose children differ from one another.
C1_Witness ==
    /\ wire.kind \in {"and", "or"}
    /\ WellFormedFilter(queryFilter, camelPropertyNameToNameAndTypeMap)
    /\ Depth(queryFilter) = 2
    /\ Len(wire.children) = 2
    /\ wire.children[1] # wire.children[2]
    /\ \E i \in 1..2 : wire.children[i].kind = "single"
                       /\ wire.children[i].type = "select"

(***************************************************************************)
(* Properties of the schema drift validator                                *)
(***************************************************************************)
RowMissing(row) == Keys(camelPropertyNameToNameAndTypeMap) \ Keys(row)
RowUnexpected(row) == Keys(row) \ Keys(camelPropertyNameToNameAndTypeMap)
RowZodIssues(row) == safeParse(schema, row, Len(schema))

\* The signature is the one of an issue the row has.
IsIssueOf(sig, row) ==
    \/ /\ sig.type = "missing_properties"
       /\ RowMissing(row) # {}
       /\ Range(sig.properties) = RowMissing(row)
    \/ /\ sig.type = "unexpected_property"
       /\ sig.property \in RowUnexpected(row)
    \/ /\ sig.type = "zod"
       /\ RowZodIssues(row) # <<>>
       /\ sig.issues = RowZodIssues(row)

\* C3: on one client, a validation prints a warning for an issue exactly when
\* the signature of the issue was not printed before on this client: every
\* warning of the call is a new signature of an issue of the row, printed
\* once, and every issue of the row has been printed by the end of the call,
\* whatever other kinds or contents were printed earlier.
C3_WarnOncePerSignature ==
    [][ validations' = validations + 1 =>
          LET row == lastRow'
              new == lastEmitted'
          IN  /\ consoleErrors' = consoleErrors \o new
              /\ \A i \in DOMAIN new :
                    /\ new[i] \notin Range(consoleErrors)
                    /\ IsIssueOf(new[i], row)
                    /\ \A j \in DOMAIN new : new[i] = new[j] => i = j
              /\ RowMissing(row) # {} =>
                    \E sig \in Range(consoleErrors') :
                        /\ sig.type = "missing_properties"
                        /\ Range(sig.properties) = RowMissing(row)
              /\ \A k \in RowUnexpected(row) :
                    \E sig \in Range(consoleErrors') :
                        sig.type = "unexpected_property" /\ sig.property = k
              /\ RowZodIssues(row) # <<>> =>
                    \E sig \in Range(consoleErrors') :
                        sig.type = "zod" /\ sig.issues = RowZodIssues(row)
      ]_vars

\* A row with missing properties was validated again and nothing was printed,
\* after warnings of all three kinds, two of them of the missing kind.
C3_Witness ==
    /\ validations = 3
    /\ lastEmitted = <<>>
    /\ RowMissing(lastRow) # {}
    /\ \E i, j \in DOMAIN consoleErrors :
          /\ i # j
          /\ consoleErrors[i].type = "missing_properties"
          /\ consoleErrors[j].type = "missing_properties"
    /\ \E i \in DOMAIN consoleErrors : consoleErrors[i].type = "zod"

(***************************************************************************)
(* Properties of the response simplifier                                   *)
(***************************************************************************)
RowsWithProperties(res) == SelectSeq(res, LAMBDA r : r.hasProperties)

\* C9: every raw row without the `properties` key, whatever its object kind,
\* is left out of the results without the simplifier throwing, and the other
\* rows are simplified.
C9_RowsWithoutPropertiesLeftOut ==
    (query.called /\ query.call.sent) =>
        /\ ~query.threw
        /\ Len(query.results) = Len(RowsWithProperties(query.response))

TextLikeTypes == {"title", "rich_text", "email", "phone_number", "url", "unique_id"}

\* The text of the value of a text-like remote property: its runs joined in
\* order, its string, or null when it has no value.
TextOf(v) ==
    CASE v.tag = "runs" -> VStr(Join(v.runs))
      [] v.tag = "str" -> v
      [] OTHER -> VNull

\* C10: for every text-like kind the extracted value is the concatenation, in
\* order, of the plain texts of the property, or null when it has no value.
C10_TextLikeValues ==
    (/\ query.called /\ query.call.sent /\ ~query.threw
     /\ Len(query.results) = Len(query.response)) =>
        \A i \in DOMAIN query.response :
            \A j \in DOMAIN query.response[i].properties :
                LET p == query.response[i].properties[j]
                    k == camelize(p.columnName)
                    map == camelPropertyNameToNameAndTypeMap
                IN  (/\ HasKey(map, k)
                     /\ Lookup(map, k).type \in TextLikeTypes
                     /\ p.x.type = Lookup(map, k).type) =>
                        RowValue(query.results[i], k) = TextOf(p.x.v)

(***************************************************************************)
(* Properties of the config patcher                                        *)
(***************************************************************************)
\* The `databases` array literals the patcher reaches in a config source.
IsPatched(node) ==
    /\ node.shape \in VisitedShapes
    /\ node.expr \in {"ObjectExpression", "TSSatisfiesExpression"}
    /\ node.databases = "ArrayExpression"

PatchedArrays(file) == {i \in DOMAIN file.nodes : IsPatched(file.nodes[i])}

LiteralCount(elements, id) ==
    Cardinality({i \in DOMAIN elements : elements[i].lit /\ elements[i].value = id})

\* The identifier is a string literal of the `databases` array of the config:
\* of each array the patcher reaches in a source that parses, or of the array
\* of the exported object of a source that only loads.
AlreadyLiteral(file, id) ==
    \/ /\ file.parses
       /\ PatchedArrays(file) # {}
       /\ \A i \in PatchedArrays(file) : id \in existingIds(file.nodes[i].elements)
    \/ /\ ~file.parses
       /\ file.loadable
       /\ IsPatched(file.nodes[Len(file.nodes)])
       /\ id \in existingIds(file.nodes[Len(file.nodes)].elements)

\* C4: appending an identifier that is already a string literal of the
\* `databases` array is a no-op: writeConfigFileWithAST returns false, writes
\* nothing, and the config file is what it was before the call.
C4_ExistingIdIsNoOp ==
    (patch.called /\ AlreadyLiteral(patch.before, patch.newDatabaseId)) =>
        /\ patch.returned = "false"
        /\ ~patch.wrote
        /\ configFile = patch.before

\* The second of two calls with the same identifier: the first one appended
\* the literal and rendered the source again, the second one found it.
C4_Witness ==
    /\ adds = 2
    /\ patch.before.rendering = "generated"
    /\ patch.path = "ast"
    /\ patch.returned = "false"
    /\ \E i \in PatchedArrays(patch.before) :
          LET elements == patch.before.nodes[i].elements
          IN  /\ Len(elements) = 2
              /\ elements[2] = StringLiteral(patch.newDatabaseId, "Books")

C6_FallbackWhenUnparsedOrUnmatched ==
    (/\ patch.called
     /\ patch.before.loadable
     /\ fsWritable
     /\ \/ ~patch.before.parses
        \/ PatchedArrays(patch.before) = {}) =>
        /\ patch.path = "fallback"
        /\ \E i \in DOMAIN loadConfig(configFile).databases :
              loadConfig(configFile).databases[i] = patch.newDatabaseId

(***************************************************************************)
(* Properties of the generation passes                                     *)
(***************************************************************************)
\* The latest pass went through every step and returned its names.
PassSucceeded(type) ==
    /\ pass.ran
    /\ pass.options.type = type
    /\ pass.returned = "names"
    /\ pass.databaseNames # <<>>

\* What generating the data source of a uuid records in the cache.
FreshMetadata(uuid) ==
    createMetadata(Id(uuid, remote.dashed), ClassNames[remote.titles[uuid]],
                   remote.titles[uuid])

ConfiguredUuids(config) == {config.databases[i].uuid : i \in DOMAIN config.databases}

\* C2: a full pass in which generating one entity fails still attempts every
\* configured entity, and the names it returns are those of the entities
\* that were generated, in order, without the failed ones.
C2_FullPassIsolatesFailures ==
    (pass.ran /\ pass.options.type = "all" /\ pass.returned = "names") =>
        LET generated == SelectSeq(pass.config.databases,
                                   LAMBDA id : pass.outcome[id.uuid] = "ok")
        IN  /\ pass.attempted = pass.config.databases
            /\ pass.databaseNames =
                  [i \in DOMAIN generated |-> remote.titles[generated[i].uuid]]

\* C7: after a successful incremental pass for X the cache holds the fresh
\* entry of X and, of the entries cached before, exactly those whose
\* identifier is in the config's list; the entries of the other entities
\* that are still configured are kept as they were, and no identifier is in
\* two entries.
C7_IncrementalPassMergesCache ==
    PassSucceeded("incremental") =>
        LET cached == Range(readDatabaseMetadata(pass.before.metadataFile))
            after == disk.metadataFile.entries
            X == pass.options.id.uuid
        IN  /\ FreshMetadata(X) \in Range(after)
            /\ \A e \in Range(after) :
                  \/ e = FreshMetadata(X)
                  \/ e \in cached /\ e.id \in Range(pass.config.databases)
            /\ \A e \in cached :
                  (e.id \in Range(pass.config.databases) /\ e.id.uuid # X)
                      => e \in Range(after)
            /\ \A e \in cached :
                  (e.id.uuid \in ConfiguredUuids(pass.config) /\ e.id.uuid # X)
                      => e \in Range(after)
            /\ \A i, j \in DOMAIN after : after[i].id = after[j].id => i = j

\* C8: after a successful full pass the cache holds one entry for each entity
\* generated in the pass, the one generated in the pass, and nothing else: an
\* entity cached before and not configured any more has no entry.
C8_FullPassCacheIsFresh ==
    PassSucceeded("all") =>
        LET after == disk.metadataFile.entries
            targets == ConfiguredUuids(pass.config)
        IN  /\ disk.metadataFile.state = "json"
            /\ Range(after) = {FreshMetadata(u) : u \in targets}
            /\ Len(after) = Cardinality(targets)

\* A successful full pass over a list that names one entity in both forms,
\* run when the cache held an entry of an entity that is not in the list.
C8_Witness ==
    /\ PassSucceeded("all")
    /\ Len(pass.config.databases) = 2
    /\ Cardinality(ConfiguredUuids(pass.config)) = 1
    /\ pass.config.databases[1] # pass.config.databases[2]
    /\ \E e \in Range(readDatabaseMetadata(pass.before.metadataFile)) :
          e.id.uuid \notin ConfiguredUuids(pass.config)
    /\ Len(disk.metadataFile.entries) = 1

(***************************************************************************)
(* Properties of the generated module                                      *)
(***************************************************************************)
\* The member of the generated type and the entry of the generated validator
\* that the i-th supported property gave: both lists are pushed together.
TypeField(i) == generatedModule.databaseColumnTypeProps[i]
ValidatorEntry(i) == generatedModule.zodColumns[i]

OtherKinds == SupportedTypes \ {"title"}

\* The claim as stated: title is required in the type and neither optional
\* nor nullable in the validator; every other supported kind, checkbox
\* included, is optional in the type and optional and nullable in the
\* validator.
C11_EveryOtherKindNullable ==
    generatedModule.written =>
        \A i \in DOMAIN generatedModule.zodColumns :
            LET kind == ValidatorEntry(i).type
                zod == ValidatorEntry(i).zod
            IN  /\ kind = "title" =>
                      ~TypeField(i).optional /\ ~zod.optional /\ ~zod.nullable
                /\ kind \in OtherKinds =>
                      TypeField(i).optional /\ zod.optional /\ zod.nullable

\* C11: for every supported kind the generated type member and the generated
\* validator entry of a property agree on optionality: title is required in
\* the type and neither optional nor nullable in the validator; every other
\* supported kind is optional in the type and optional in the validator, and
\* its validator is nullable except for checkbox, which is not nullable.
C11_TypeAndValidatorAgree ==
    generatedModule.written =>
        /\ Len(generatedModule.databaseColumnTypeProps) = Len(generatedModule.zodColumns)
        /\ \A i \in DOMAIN generatedModule.zodColumns :
            LET kind == ValidatorEntry(i).type
                zod == ValidatorEntry(i).zod
            IN  /\ kind \in SupportedTypes
                /\ TypeField(i).name = ValidatorEntry(i).propName
                /\ TypeField(i).optional = zod.optional
                /\ kind = "title" =>
                      ~TypeField(i).optional /\ ~zod.optional /\ ~zod.nullable
                /\ kind \in OtherKinds =>
                      /\ TypeField(i).optional /\ zod.optional
                      /\ zod.nullable = (kind # "checkbox")

\* A module generated from a title and a checkbox property.
C11_Witness ==
    /\ generatedModule.written
    /\ \E i, j \in DOMAIN generatedModule.zodColumns :
          /\ ValidatorEntry(i).type = "title"
          /\ ValidatorEntry(j).type = "checkbox"
          /\ ~ValidatorEntry(j).zod.nullable

(***************************************************************************)
(* Properties of filters compiled by a client                              *)
(***************************************************************************)
\* The SemanticNames that the leaves of a filter use.
RECURSIVE LeafNames(_)
LeafNames(qf) ==
    UNION { IF qf[i].isList
            THEN UNION {LeafNames(qf[i].sub[j]) : j \in DOMAIN qf[i].sub}
            ELSE {qf[i].key} : i \in DOMAIN qf }

UnknownNames(qf, map) == {n \in LeafNames(qf) : ~HasKey(map, n)}

Contains(text, part) ==
    \E i \in 1..(Len(text) - Len(part) + 1) : SubSeq(text, i, i + Len(part) - 1) = part

\* C12: a query whose filter has a leaf on a name that is not a key of the
\* column mapping fails with an error whose message holds the unknown name;
\* no wire filter is returned and the remote query is not sent.
C12_UnknownNameFailsDescriptively ==
    (/\ query.called
     /\ query.filter # NoFilter
     /\ UnknownNames(query.filter, camelPropertyNameToNameAndTypeMap) # {}) =>
        /\ query.threw
        /\ query.call.filter.kind = "TypeError"
        /\ ~query.call.sent
        /\ \E n \in UnknownNames(query.filter, camelPropertyNameToNameAndTypeMap) :
              Contains(ErrorMessage(query.call.filter), n)

\* The wire filter w has the shape of the filter qf, and the `property` of
\* each of its leaves camelizes to the name of the leaf of qf in its place.
RECURSIVE RoundTrips(_, _)
RoundTrips(qf, w) ==
    IF qf[1].isList
    THEN /\ w.kind \in {"and", "or"}
         /\ Len(w.children) = Len(qf[1].sub)
         /\ \A i \in DOMAIN qf[1].sub : RoundTrips(qf[1].sub[i], w.children[i])
    ELSE /\ w.kind = "single"
         /\ camelize(w.property) = qf[1].key

\* C13: for the column mapping of a generated module and a filter on names
\* of that mapping, the `property` of every leaf of the compiled wire filter
\* camelizes to the SemanticName of the corresponding leaf of the filter.
C13_WirePropertyCamelizesBack ==
    (generatedModule.written /\ wire # NotCompiled) =>
        /\ UnknownNames(queryFilter, generatedModule.camelPropertyNameToNameAndTypeMap) = {}
        /\ RoundTrips(queryFilter, wire)

\* A compound over leaves of two names, neither equal to its remote name.
C13_Witness ==
    /\ generatedModule.written
    /\ wire.kind = "and"
    /\ Len(wire.children) = 2
    /\ wire.children[1].property # wire.children[2].property
    /\ \A i \in 1..2 : /\ wire.children[i].kind = "single"
                       /\ wire.children[i].property # queryFilter[1].sub[i][1].key

(***************************************************************************)
(* Properties of the validator calls of a query                            *)
(***************************************************************************)
\* C14: for one query response the drift validator is called at most once;
\* when the returned results are not empty it is called exactly once, with
\* the first of the returned rows, and with no later row.
C14_ValidatesFirstReturnedRow ==
    query.called =>
        /\ Len(query.validated) <= 1
        /\ (~query.threw /\ query.results # <<>>) =>
              query.validated = <<query.results[1]>>

\* C15: drift does not change what a query returns: the validator does not
\* throw, so the query throws only when simplifying a row does, and the
\* response and the results are those of the rows alone, whatever issues the
\* validator found and reported.
C15_DriftLeavesOutcome ==
    (query.called /\ query.call.sent) =>
        LET res == query.response
            kept == SelectSeq(res, LAMBDA r : RowOutcome(r) = "row")
        IN  /\ res = remoteRows
            /\ query.threw = (\E i \in DOMAIN res : RowOutcome(res[i]) = "TypeError")
            /\ ~query.threw =>
                  query.results =
                      [i \in DOMAIN kept |->
                          SimplifyRow(kept[i], camelPropertyNameToNameAndTypeMap)]

\* A query that returned rows after the validator reported a missing
\* property and an issue of the zod schema.
C15_Witness ==
    /\ query.called
    /\ ~query.threw
    /\ Len(query.results) = 2
    /\ \E i, j \in DOMAIN lastEmitted :
          /\ lastEmitted[i].type = "missing_properties"
          /\ lastEmitted[j].type = "zod"

(***************************************************************************)
(* Properties of the agent list sync                                       *)
(***************************************************************************)
IsVisited(node) ==
    /\ node.shape \in VisitedShapes
    /\ node.expr \in {"ObjectExpression", "TSSatisfiesExpression"}

\* The objects of the source whose `agents` array literal the sync reaches.
SyncedArrays(file) ==
    {i \in DOMAIN file.nodes :
        IsVisited(file.nodes[i]) /\ file.nodes[i].agents = "ArrayExpression"}

SuppliedIds(agents) == {Undashed(agents[i].id) : i \in DOMAIN agents}
ArrayIds(node) == Range(existingAgentIds(node.agentElements))

\* The latest call was a sync that took the structural path to its end.
StructuralSync ==
    /\ sync.called
    /\ sync.op = "sync"
    /\ sync.before.parses
    /\ fsWritable

C17_PatchChangesTargetedArrayOnly ==
    (sync.called /\ sync.path = "ast" /\ sync.wrote) =>
        LET n == Len(sync.before.nodes)
            old == sync.before.nodes[n]
            new == configFile.nodes[n]
        IN  /\ Len(configFile.nodes) = n
            /\ configFile.isTS = sync.before.isTS
            /\ \A i \in 1..(n - 1) : configFile.nodes[i] = sync.before.nodes[i]
            /\ new.shape = old.shape /\ new.expr = old.expr
            /\ sync.op = "sync" =>
                  new.databases = old.databases /\ new.elements = old.elements
            /\ sync.op = "append" =>
                  new.agents = old.agents /\ new.agentElements = old.agentElements

(***************************************************************************)
(* Properties of the outputs of a generation pass                          *)
(***************************************************************************)
\* C18: a full pass over an empty list of configured identifiers ends the
\* process with exit status 1 after printing its message (or, without the
\* credential, is rejected when the config is resolved), and nothing was
\* deleted or written before that: the module files, the metadata cache,
\* the barrel and the index are what they were.
C18_EmptyListExitsBeforeAnyOutput ==
    (pass.ran /\ pass.options.type = "all" /\ pass.config.databases = <<>>) =>
        /\ pass.returned = IF pass.config.auth THEN "exit" ELSE "throw"
        /\ disk = pass.before
        /\ pass.attempted = <<>>
        /\ pass.databaseNames = <<>>

\* A full pass over a list the user has emptied, run on the output of an
\* earlier pass.
C18_Witness ==
    /\ pass.ran
    /\ pass.options.type = "all"
    /\ pass.config.databases = <<>>
    /\ pass.returned = "exit"
    /\ pass.before.moduleFiles # {}
    /\ pass.before.metadataFile.state = "json"
    /\ pass.before.barrel.present
    /\ disk = pass.before

\* C19: after any pass, full or incremental, succeeded or failed, the barrel
\* and the source index enumerate exactly the entities the metadata cache
\* records, and the module file of every enumerated entity is in the output
\* directory.
C19_OutputsEnumerateTheCache ==
    pass.ran =>
        LET entries == readDatabaseMetadata(disk.metadataFile)
            exported == IF disk.barrel.present THEN disk.barrel.classNames ELSE <<>>
        IN  /\ Range(exported) = {entries[i].className : i \in DOMAIN entries}
            /\ Range(disk.sourceIndex) =
                  {entries[i].camelCaseName : i \in DOMAIN entries}
            /\ \A name \in Range(exported) :
                  \E f \in disk.moduleFiles : f.className = name

(***************************************************************************)
(* Properties of the entries of a generated module                         *)
(***************************************************************************)
SupportedProperties ==
    SelectSeq(dataSourceResponse, LAMBDA d : isSupportedPropertyType(d.type))
UnsupportedProperties ==
    SelectSeq(dataSourceResponse, LAMBDA d : ~isSupportedPropertyType(d.type))

\* C20: a property of an unsupported kind gives no member of the generated
\* type, no entry of the validator, no enum constant and no entry of the
\* column mapping, and generation goes on after it; the names of the type
\* members, the keys of the validator and the keys of the mapping are one
\* set, the SemanticNames of the supported properties, each with a supported
\* kind.
C20_UnsupportedKindsLeftOut ==
    generatedModule.written =>
        LET supported == SupportedProperties
            names == {camelize(supported[i].name) : i \in DOMAIN supported}
            map == generatedModule.camelPropertyNameToNameAndTypeMap
            fields == generatedModule.databaseColumnTypeProps
            columns == generatedModule.zodColumns
            enums == generatedModule.enumConstStatements
            choices == SelectSeq(supported, LAMBDA d : d.type \in ChoiceKinds)
        IN  /\ generatedModule.skipped =
                  [i \in DOMAIN UnsupportedProperties |-> UnsupportedProperties[i].name]
            /\ [i \in DOMAIN fields |-> fields[i].name] =
                  [i \in DOMAIN supported |-> camelize(supported[i].name)]
            /\ [i \in DOMAIN columns |-> columns[i].columnName] =
                  [i \in DOMAIN supported |-> supported[i].name]
            /\ [i \in DOMAIN enums |-> enums[i].identifier] =
                  [i \in DOMAIN choices |->
                      toPascalCase(camelize(choices[i].name)) \o PropertyValuesSuffix]
            /\ \A i \in DOMAIN map :
                  \E j \in DOMAIN supported :
                      /\ map[i].columnName = supported[j].name
                      /\ map[i].type = supported[j].type
            /\ {fields[i].name : i \in DOMAIN fields} = names
            /\ {columns[i].propName : i \in DOMAIN columns} = names
            /\ Keys(map) = names
            /\ \A i \in DOMAIN columns : columns[i].type \in SupportedTypes
            /\ \A i \in DOMAIN map : map[i].type \in SupportedTypes

\* A module generated from a property of an unsupported kind and a choice
\* property whose names camelize to the same SemanticName.
C20_Witness ==
    /\ generatedModule.written
    /\ Len(generatedModule.skipped) = 1
    /\ Len(generatedModule.zodColumns) = 1
    /\ Len(generatedModule.enumConstStatements) = 1
    /\ camelize(generatedModule.skipped[1]) = generatedModule.zodColumns[1].propName
    /\ dataSourceResponse[1].type \in UnsupportedTypes

(***************************************************************************)
(* Properties of what a pass leaves alone                                  *)
(***************************************************************************)
\* The module files that generating other entities than the one of the uuid
\* wrote.
ModuleFilesOfOthers(files, uuid) == {f \in files : f.id.uuid # uuid}

\* C21: an incremental pass for X creates or rewrites the module files of X,
\* the barrel, the index and the metadata cache only: every module file of
\* another generated entity is after the pass what it was before.
C21_IncrementalPassKeepsOtherModules ==
    (pass.ran /\ pass.options.type = "incremental") =>
        ModuleFilesOfOthers(pass.before.moduleFiles, pass.options.id.uuid)
            \subseteq disk.moduleFiles

(***************************************************************************)
(* Properties of the remote calls of a client                              *)
(***************************************************************************)
\* C22: the sort given to query is sent to the remote query call whether or
\* not a filter is given: a query with a sort and no filter sends that sort.
C22_SortIsSentWithoutFilter ==
    (query.called /\ query.call.sent /\ query.sort # "absent") =>
        query.call.sorts = query.sort

\* C23: when a page is added, the generated validator of the entity is run
\* on the supplied properties before the remote page-creation call is sent,
\* and properties that fail the validation do not reach the remote call.
C23_AddValidatesBeforeCreate ==
    added.called =>
        /\ added.sent => added.validated = <<added.properties>>
        /\ safeParse(schema, added.properties, Len(schema)) # <<>> => ~added.sent

(***************************************************************************)
(* Properties of `notion add` and of the resolved config                   *)
(***************************************************************************)
\* The place of a step in the steps of a run, 0 when the run did not take it.
StepIndex(steps, step) ==
    IF \E i \in DOMAIN steps : steps[i] = step
    THEN CHOOSE i \in DOMAIN steps : steps[i] = step
    ELSE 0

ListedIn(file, id) ==
    \E i \in DOMAIN loadConfig(file).databases : loadConfig(file).databases[i] = id

\* C24: `notion add <id>` checks that the database is visible and fetches
\* it, generates the types, and only then updates the identifier list of
\* the config file; when the database cannot be retrieved the config file
\* does not gain the identifier.
C24_AddUpdatesConfigLast ==
    (addRun.called /\ addRun.before.loadable) =>
        LET id == validateAndGetUndashedUuid(addRun.input)
            gained == ~ListedIn(addRun.before, id) /\ ListedIn(addRun.after, id)
        IN  /\ addRun.patched.wrote =>
                  /\ StepIndex(addRun.steps, "createDatabaseTypes") > 0
                  /\ StepIndex(addRun.steps, "createDatabaseTypes")
                        < StepIndex(addRun.steps, "writeConfigFileWithAST")
            /\ ~addRun.visible => ~gained

\* The config that the config file holds now.
ConfigOnDisk == loadConfig(configFile)

\* C27: a call of getNotionConfig made while a config is cached returns that
\* config and loads nothing, whatever the file holds by then; a call made
\* when none is cached, before the first load or after clearConfigCache,
\* returns the config the file holds at that time; so the generation that
\* `notion add` runs after the patch resolves the patched identifier list.
C27_LoadOnceClearOnDemand ==
    [][ /\ GetNotionConfig =>
              /\ cachedConfig.set =>
                    /\ ~resolved'.threw
                    /\ resolved'.config = cachedConfig.config
                    /\ importedModule' = importedModule
              /\ (~cachedConfig.set /\ ~resolved'.threw) =>
                    resolved'.config = ConfigOnDisk
        /\ (RunAdd /\ addRun'.returned = "done") =>
              addRun'.generationConfig.databases =
                  loadConfig(addRun'.after).databases
      ]_vars

(***************************************************************************)
(* Properties of the response simplifier                                   *)
(***************************************************************************)
\* C25: for a remote property of the mapped kind, the simplifier gives: for
\* select and status the label of the selected option, or null when nothing is
\* selected; for multi_select the labels of the selected options in their
\* order (null when the property object has no multi_select field); for
\* checkbox the boolean; for number the number, zero included, or null when
\* the property has no value.
C25_SimplifierExtracts ==
    responseValue.called =>
        LET prop == responseValue.prop
            x == responseValue.x
            value == responseValue.value
        IN  /\ (prop \in {"select", "status"} /\ x.type = prop) =>
                  /\ x.v.tag = "opt" => value = VLabel(x.v.s)
                  /\ x.v = VNull => value = VNull
            /\ prop = "multi_select" =>
                  /\ (x.type = prop /\ x.v.tag = "opts") => value = VLabels(x.v.arr)
                  /\ x.type # prop => value = VNull
            /\ (prop = "checkbox" /\ x.type = prop) => value = VBool(x.v.b)
            /\ (prop = "number" /\ x.type = prop) =>
                  /\ x.v.tag = "num" => value = VNum(x.v.n)
                  /\ x.v = VNull => value = VNull

C25_Witness ==
    /\ responseValue.called
    /\ responseValue.prop = "number"
    /\ responseValue.x = Prop("number", VNum(0))
    /\ responseValue.value = VNum(0)

(***************************************************************************)
(* Properties of a filter object with several keys                         *)
(***************************************************************************)
\* C26: a filter object with more than one top-level key, whose first key is
\* `and`/`or` over well-formed filters or a SemanticName of the mapping,
\* compiles to the image of its first key alone, whatever the other keys
\* are, and the compiler raises no error.
C26_OnlyFirstKeyCompiled ==
    (/\ wire # NotCompiled
     /\ Len(queryFilter) > 1
     /\ WellFormedFilter(SubSeq(queryFilter, 1, 1), camelPropertyNameToNameAndTypeMap))
        => /\ wire # WireTypeError
           /\ WireMatches(SubSeq(queryFilter, 1, 1), wire,
                          camelPropertyNameToNameAndTypeMap)

\* A compiled filter whose second key is not a name of the mapping.
C26_Witness ==
    /\ Len(queryFilter) = 2
    /\ queryFilter[2].key = sGhost
    /\ ~HasKey(camelPropertyNameToNameAndTypeMap, sGhost)
    /\ wire.kind = "single"
    /\ wire.property = cBookRating

(***************************************************************************)
(* Properties of a failed pass                                             *)
(***************************************************************************)
\* C28: a pass that fails, returning an empty name list because an entity
\* could not be generated, leaves the module files, the barrel, the source
\* index and the metadata cache as they were before the pass started.
C28_FailedPassLeavesOutputs ==
    (pass.ran /\ pass.returned = "names" /\ pass.databaseNames = <<>>)
        => disk = pass.before

(***************************************************************************)
(* Properties of the keys of a simplified row                              *)
(***************************************************************************)
\* C29: every key of every simplified row of a query is a key of the column
\* mapping, a remote property without a mapping entry giving no key at all;
\* so the validator, called by queries only, never reports an unexpected
\* property.
C29_RowKeysAreMappingKeys ==
    /\ query.called =>
          /\ \A i \in DOMAIN query.results :
                Keys(query.results[i]) \subseteq Keys(camelPropertyNameToNameAndTypeMap)
          /\ \A i \in DOMAIN query.validated :
                Keys(query.validated[i]) \subseteq Keys(camelPropertyNameToNameAndTypeMap)
    /\ \A i \in DOMAIN consoleErrors : consoleErrors[i].type # "unexpected_property"
    /\ \A l \in loggedSchemaValidationIssues : l.type # "unexpected_property"

\* A query whose first row, the validated one, has remote properties without
\* a mapping entry.
C29_Witness ==
    /\ query.called
    /\ ~query.threw
    /\ Len(query.results) = 2
    /\ query.validated # <<>>
    /\ \E n \in DOMAIN query.response[1].properties :
          ~HasKey(camelPropertyNameToNameAndTypeMap,
                  camelize(query.response[1].properties[n].columnName))
    /\ consoleErrors # <<>>

(***************************************************************************)
(* Properties of colliding SemanticNames                                   *)
(***************************************************************************)
Count(seq, Test(_)) == Cardinality({i \in DOMAIN seq : Test(seq[i])})

\* C30: when several supported properties of a data source camelize to one
\* SemanticName, the module is generated and none of them is reported as
\* skipped; the column mapping has one entry of that name, with the remote
\* name and the kind of the last of them in schema order; the generated type
\* and the generated validator have one member of that name for each of them.
\* (Stated of the module as generation leaves it, before any filter is
\* compiled with it: compiling a filter does not change the module.)
C30_CollidingNamesKeepLast ==
    (generatedModule.written /\ wire = NotCompiled /\ Len(dataSourceResponse) > 1) =>
        LET supported == SupportedProperties
            names == [j \in DOMAIN supported |-> camelize(supported[j].name)]
            map == generatedModule.camelPropertyNameToNameAndTypeMap
        IN  \A j \in DOMAIN supported :
                LET colliding == {i \in DOMAIN supported : names[i] = names[j]}
                    last == supported[CHOOSE l \in colliding :
                                         \A i \in colliding : i <= l]
                IN  Cardinality(colliding) > 1 =>
                        /\ \A i \in DOMAIN generatedModule.skipped :
                              generatedModule.skipped[i] # supported[j].name
                        /\ Count(map, LAMBDA e : e.key = names[j]) = 1
                        /\ Lookup(map, names[j]).columnName = last.name
                        /\ Lookup(map, names[j]).type = last.type
                        /\ Count(generatedModule.databaseColumnTypeProps,
                                 LAMBDA f : f.name = names[j])
                              = Cardinality(colliding)
                        /\ Count(generatedModule.zodColumns,
                                 LAMBDA c : c.propName = names[j])
                              = Cardinality(colliding)

\* A module generated from two supported properties of different kinds whose
\* names camelize to the same SemanticName.
C30_Witness ==
    /\ generatedModule.written
    /\ Len(dataSourceResponse) = 2
    /\ Len(SupportedProperties) = 2
    /\ camelize(dataSourceResponse[1].name) = camelize(dataSourceResponse[2].name)
    /\ dataSourceResponse[1].type # dataSourceResponse[2].type
    /\ Len(generatedModule.camelPropertyNameToNameAndTypeMap) = 1
    /\ generatedModule.camelPropertyNameToNameAndTypeMap[1].columnName
          = dataSourceResponse[2].name
    /\ Len(generatedModule.zodColumns) = 2

====
